---- MODULE Spec2Model ----
(***************************************************************************)
(* Verification model of the NeuroHelix orchestrator's execution engine:   *)
(*   - GeminiCLIAdapter.execute_prompt   (adapters/gemini_cli.py)          *)
(*   - ManifestService completion markers (services/manifest.py)           *)
(*   - FileLock                           (adapters/filesystem.py)         *)
(*   - RunnerService.execute_wave         (services/runner.py)             *)
(* Each component has its own specification over its own variables; the    *)
(* variables of the other components stay at their initial values.         *)
(***************************************************************************)
EXTENDS Integers, Sequences, FiniteSets, TLC

VARIABLES
    \* ---- GeminiCLIAdapter.execute_prompt -------------------------------
    a_pc,           \* "idle" | "limiter" | "invoke" | "returned" | "raised"
    a_policy,       \* the PromptPolicy of the call: [prompt_id, max_retries]
    a_rl,           \* self.rate_limiter is set (enable_rate_limiting)
    a_attempt,      \* loop variable `attempt`
    a_retries,      \* local `retries`
    a_last_error,   \* local `last_error`
    a_sleeps,       \* the time.sleep(backoff_time) calls made, in order
    a_invocations,  \* number of subprocess.run calls made
    a_limiterCalls, \* number of rate_limiter.wait_if_needed calls made
    a_file,         \* content of output_path (Absent when it does not exist)
    a_result,       \* what execute_prompt returned or raised
    a_obs,          \* observations of the run, for the properties
    \* ---- ManifestService: one output file and its completion marker ----
    m_file,         \* content of output_path (Absent when it does not exist)
    m_marker,       \* content of .nh_status_<stem>.json beside it
    m_check,        \* the last is_completed call: its arguments and result
    m_obs,          \* what the last write_completion_marker call saw
    \* ---- FileLock: one lock path, several processes ---------------------
    lk_file,        \* the file at lock_path: NoFile or [inode, meta, born]
    lk_flock,       \* per inode (named by its creator): who holds flock on it
    lk_pc,          \* per process: position in acquire, "held", "dead", ...
    lk_fd,          \* per process: inode self.lock_file is open on ("unlinked":
                    \* a removed file whose name has been reused), or None
    lk_t0,          \* per process: time.time() of its last successful acquire
    lk_res,         \* the outcome of the last acquire call that ended: [proc, kind]
                    \* and, in a LockError for a held lock, pid, command, age
    lk_now,         \* the clock, time.time()
    lk_forced,      \* some acquire so far was called with force=True
    lk_stray,       \* some release so far was called by a process that did not
                    \* hold the lock, or whose lock had been taken over
    lk_acq,         \* per process, for its acquire call in progress: the
                    \* force argument, what the call found at lock_path and
                    \* whether no other process has touched the lock since
    \* ---- RunnerService.execute_wave -------------------------------------
    w_file,         \* per output path: its content (Absent when missing)
    w_marker,       \* per marker path: the completion marker file
    w_ledger,       \* the entries the current call appended to the date's ledger
    w_call,         \* the execute_wave call in progress or last returned
    w_unit,         \* per unit id: position and locals of its worker
    w_completed,    \* local `completed` of the call
    w_failed,       \* local `failed` of the call
    w_prev,         \* the call before the current one, as it returned
    \* ---- nh run: the wave loop of one pipeline invocation ---------------
    r_run,          \* position and locals of the invocation
    \* ---- RunnerService._get_max_workers --------------------------------
    pl_prompts,     \* the argument `prompts` of the last call
    pl_workers,     \* [returned, value]: what the last call returned
    \* ---- TokenBucketRateLimiter (services/rate_limiter.py) -------------
    tb_minute_tokens,       \* self._minute_tokens, in token units
    tb_minute_last_update,  \* self._minute_last_update
    tb_day_requests,        \* self._day_requests
    tb_day_reset_time,      \* self._day_reset_time
    tb_lock,                \* the thread holding self._lock, or None
    tb_time,                \* the clock read by time.time() and datetime.now()
    tb_thread,              \* per thread: position, call, locals and outcome
    tb_grants,              \* tokens granted since the daily counter was reset
    \* ---- LedgerService (services/ledger.py) ----------------------------
    ld_file,        \* per date: the content of logs/ledger/<date>.jsonl
    ld_written,     \* per date: the LedgerEntry objects built by the writes
    ld_seen,        \* per date: what the last read_ledger_entries returned
    \* ---- RunnerService._get_output_path (services/runner.py) -----------
    op_in,          \* the arguments of the last call: the unit (its wave and
                    \* expected_outputs) and the date
    op_out,         \* [resolved, path]: what the call returned
    \* ---- TSVRegistryProvider.validate (services/registry.py) -----------
    rv_prompts,     \* self._prompts of the last call
    rv_result,      \* [returned, ok, errors]: what the last call returned
    \* ---- SQLiteRegistryProvider, migrate_tsv_to_sqlite -----------------
    mg_table,       \* rows of the `prompts` table of the destination
    mg_call,        \* [op, source, before, error]: the last call
    \* ---- one unit run for one date, checked for another ----------------
    dk_run,         \* [done, prompt, date, path, marker]: the successful run
    dk_check,       \* [done, date, skipped]: the completion check of a later run
    \* ---- ManifestService.build_dependency_graph ------------------------
    dg_in,          \* [prompts, date]: the arguments of the last call
    dg_out          \* [returned, deps]: the graph it returned, by unit id

adapterVars == <<a_pc, a_policy, a_rl, a_attempt, a_retries, a_last_error,
                 a_sleeps, a_invocations, a_limiterCalls, a_file, a_result, a_obs>>

manifestVars == <<m_file, m_marker, m_check, m_obs>>

lockVars == <<lk_file, lk_flock, lk_pc, lk_fd, lk_t0, lk_res, lk_now, lk_forced,
             lk_stray, lk_acq>>

waveVars == <<w_file, w_marker, w_ledger, w_call, w_unit, w_completed, w_failed,
             w_prev>>

runVars == <<r_run>>

poolVars == <<pl_prompts, pl_workers>>

bucketVars ==
    <<tb_minute_tokens, tb_minute_last_update, tb_day_requests, tb_day_reset_time>>

limiterVars == <<bucketVars, tb_lock, tb_time, tb_thread, tb_grants>>

ledgerVars == <<ld_file, ld_written, ld_seen>>

pathVars == <<op_in, op_out>>

registryVars == <<rv_prompts, rv_result>>

migrationVars == <<mg_table, mg_call>>

datedVars == <<dk_run, dk_check>>

lineageVars == <<dg_in, dg_out>>

vars ==
    <<adapterVars, manifestVars, lockVars, waveVars, runVars, poolVars, limiterVars,
     ledgerVars,
     pathVars,
     registryVars,
     migrationVars,
     datedVars,
     lineageVars>>

\* What the steps of one component leave alone: the other components.
AdapterFrame ==
    UNCHANGED <<manifestVars, lockVars, waveVars, runVars, poolVars, limiterVars,
     ledgerVars,
     pathVars,
     registryVars,
     migrationVars,
     datedVars,
     lineageVars>>
ManifestFrame ==
    UNCHANGED <<adapterVars, lockVars, waveVars, runVars, poolVars, limiterVars,
     ledgerVars,
     pathVars,
     registryVars,
     migrationVars,
     datedVars,
     lineageVars>>
LockFrame ==
    UNCHANGED <<adapterVars, manifestVars, waveVars, runVars, poolVars, limiterVars,
     ledgerVars,
     pathVars,
     registryVars,
     migrationVars,
     datedVars,
     lineageVars>>
WaveFrame ==
    UNCHANGED <<adapterVars, manifestVars, lockVars, runVars, poolVars, limiterVars,
     ledgerVars,
     pathVars,
     registryVars,
     migrationVars,
     datedVars,
     lineageVars>>
RunFrame == UNCHANGED <<adapterVars, manifestVars, lockVars, poolVars, limiterVars,
     ledgerVars,
     pathVars,
     registryVars,
     migrationVars,
     datedVars,
     lineageVars>>
PoolFrame ==
    UNCHANGED <<adapterVars, manifestVars, lockVars, waveVars, runVars, limiterVars,
     ledgerVars,
     pathVars,
     registryVars,
     migrationVars,
     datedVars,
     lineageVars>>
LimiterFrame ==
    UNCHANGED <<adapterVars, manifestVars, lockVars, waveVars, runVars, poolVars,
     ledgerVars,
     pathVars,
     registryVars,
     migrationVars,
     datedVars,
     lineageVars>>
LedgerFrame ==
    UNCHANGED <<adapterVars, manifestVars, lockVars, waveVars,
                runVars, poolVars, limiterVars,
     pathVars,
     registryVars,
     migrationVars,
     datedVars,
     lineageVars>>
PathsFrame ==
    UNCHANGED <<adapterVars, manifestVars, lockVars, waveVars,
                runVars, poolVars, limiterVars, ledgerVars,
     registryVars,
     migrationVars,
     datedVars,
     lineageVars>>
RegistryFrame ==
    UNCHANGED <<adapterVars, manifestVars, lockVars, waveVars,
                runVars, poolVars, limiterVars, ledgerVars, pathVars,
     migrationVars,
     datedVars,
     lineageVars>>
MigrationFrame ==
    UNCHANGED <<adapterVars, manifestVars, lockVars, waveVars,
                runVars, poolVars, limiterVars, ledgerVars, pathVars, registryVars,
     datedVars,
     lineageVars>>
DatedFrame ==
    UNCHANGED <<adapterVars, manifestVars, lockVars, waveVars,
                runVars, poolVars, limiterVars, ledgerVars, pathVars, registryVars, migrationVars,
     lineageVars>>
LineageFrame ==
    UNCHANGED <<adapterVars, manifestVars, lockVars, waveVars,
                runVars, poolVars, limiterVars, ledgerVars, pathVars, registryVars, migrationVars, datedVars>>

Absent == "<absent>"
None == "<none>"

\* No result yet.
NoResult == [kind |-> "none"]

\* last_error = None
NoError == [kind |-> "None", text |-> ""]

Min(a, b) == IF a <= b THEN a ELSE b

(***************************************************************************)
(* GeminiCLIAdapter                                                        *)
(***************************************************************************)

\* Largest max_retries explored; 2^6 = 64 > 60, so the 60 s cap is reached.
MaxRetriesBound == 7

PromptIds == {"search_1"}

\* stderr texts a failed subprocess may produce.
StderrTexts == {"", "API error", "HTTP 429 Too Many Requests", "Quota Exceeded"}

\* stdout a failed subprocess may have produced before exiting non-zero.
FailStdouts == {"", "partial"}

\* stdout of a subprocess that exits 0.
OkStdouts == {"report"}

\* error_output.lower()
Lower(text) ==
    CASE text = "HTTP 429 Too Many Requests" -> "http 429 too many requests"
      [] text = "Quota Exceeded" -> "quota exceeded"
      [] text = "API error" -> "api error"
      [] text = "Exit code 1" -> "exit code 1"
      [] OTHER -> text

rate_limit_indicators ==
    {"429", "rate limit", "quota exceeded", "too many requests",
     "resource exhausted", "requests per minute"}

\* `indicator in error_lower` for the texts of the model.
Contains(lowerText, indicator) ==
    \/ lowerText = "http 429 too many requests"
         /\ indicator \in {"429", "too many requests"}
    \/ lowerText = "quota exceeded" /\ indicator = "quota exceeded"

\* GeminiCLIAdapter._is_rate_limit_error
IsRateLimitError(error_output) ==
    IF error_output = "" THEN FALSE
    ELSE \E indicator \in rate_limit_indicators :
            Contains(Lower(error_output), indicator)

StandardBackoff_Uncapped(attempt) == 2 ^ attempt

\* backoff_time = min(2 ** attempt, 60)
StandardBackoff(attempt) == Min(2 ^ attempt, 60)

\* A variant that uses the standard schedule for rate-limit errors too.
RateLimitBackoff_Standard(attempt) == Min(2 ^ attempt, 60)

\* backoff_time = min(30 * (2 ** attempt), 120)
RateLimitBackoff(attempt) == Min(30 * (2 ^ attempt), 120)

\* _invoke_gemini_cli: error_msg = result.stderr if result.stderr else "Exit code N"
ErrorMsg(stderr) == IF stderr # "" THEN stderr ELSE "Exit code 1"

\* The GeminiCLIError raised after the loop.
ExhaustedError(policy, last_error) ==
    [kind |-> "GeminiCLIError", prompt_id |-> policy.prompt_id,
     attempts |-> policy.max_retries + 1, last_error |-> last_error]

\* Observations: whether some failure was classified as rate limiting, whether
\* the limiter raised, the error the last failed attempt showed, the counts at
\* the moment the limiter first reported the daily cap, the signals sent to
\* the subprocess of the last invocation, and where the content of the output
\* file comes from: the last invocation ("last"), an earlier invocation of
\* this call ("earlier_attempt"), or the time before the call ("before");
\* and the dry_run argument of the call.
NoObs == [rateLimited |-> FALSE, limiterErr |-> FALSE, lastSeen |-> None,
          capSeen |-> FALSE, capSleeps |-> 0, capCalls |-> 0, capInvocations |-> 0,
          signals |-> <<>>, fileOrigin |-> "before", dry_run |-> FALSE]

\* The origin of the file's content after an invocation that wrote nothing.
NotWritten(origin) == IF origin = "last" THEN "earlier_attempt" ELSE origin

\* subprocess.run(..., timeout=timeout_sec) on expiry: it kills the child,
\* waits for it and raises TimeoutExpired(process.args, timeout).
RunTimeoutSignals == <<"SIGKILL">>

\* e.args of the TimeoutExpired raised by subprocess.run: the command list
\* and the timeout.
TimeoutExpiredArgs == <<[kind |-> "list", value |-> "cmd"], "timeout_sec">>

\* The except clause of _invoke_gemini_cli (lines 212-224): terminate(), two
\* seconds of sleep and kill() on e.args[0]; on an object that has no such
\* methods the AttributeError is swallowed by the bare except.
HandlerSignals(args) ==
    IF Len(args) > 0 /\ args[1].kind = "Popen"
    THEN <<"SIGTERM", "SIGKILL">>
    ELSE <<>>

InitAdapter ==
    /\ a_pc = "idle"
    /\ a_policy = [prompt_id |-> "search_1", max_retries |-> 0]
    /\ a_rl = FALSE
    /\ a_attempt = 0
    /\ a_retries = 0
    /\ a_last_error = NoError
    /\ a_sleeps = <<>>
    /\ a_invocations = 0
    /\ a_limiterCalls = 0
    /\ a_file = Absent
    /\ a_result = NoResult
    /\ a_obs = NoObs

\* A variant that tests dry_run inside the retry loop, after the limiter.
ExecutePromptCall_DryRunInLoop(policy, dry_run, rl) ==
    /\ AdapterFrame
    /\ a_pc = "idle"
    /\ a_policy' = policy
    /\ a_rl' = rl
    /\ a_attempt' = 0
    /\ a_retries' = 0
    /\ a_last_error' = NoError
    /\ a_sleeps' = <<>>
    /\ a_invocations' = 0
    /\ a_limiterCalls' = IF dry_run /\ rl THEN 1 ELSE 0
    /\ a_obs' = [NoObs EXCEPT !.dry_run = dry_run]
    /\ IF dry_run
         THEN /\ a_pc' = "returned"
              /\ a_result' = [kind |-> "return", exit_code |-> 0,
                              output |-> "[DRY RUN] Would execute Gemini CLI",
                              retries |-> 0]
         ELSE /\ a_pc' = IF rl THEN "limiter" ELSE "invoke"
              /\ a_result' = NoResult
    /\ UNCHANGED a_file

\* execute_prompt up to the first loop iteration (lines 65-85).
ExecutePromptCall(policy, dry_run, rl) ==
    /\ AdapterFrame
    /\ a_pc = "idle"
    /\ a_policy' = policy
    /\ a_rl' = rl
    /\ a_attempt' = 0
    /\ a_retries' = 0
    /\ a_last_error' = NoError
    /\ a_sleeps' = <<>>
    /\ a_invocations' = 0
    /\ a_limiterCalls' = 0
    /\ a_obs' = [NoObs EXCEPT !.dry_run = dry_run]
    /\ IF dry_run
         THEN /\ a_pc' = "returned"
              /\ a_result' = [kind |-> "return", exit_code |-> 0,
                              output |-> "[DRY RUN] Would execute Gemini CLI",
                              retries |-> 0]
         ELSE /\ a_pc' = IF rl THEN "limiter" ELSE "invoke"
              /\ a_result' = NoResult
    /\ UNCHANGED a_file

FailedAttempt_OffByOne(error, backoff) ==
    /\ a_last_error' = error
    /\ a_retries' = a_attempt
    /\ IF a_attempt + 1 < a_policy.max_retries
         THEN /\ a_sleeps' = Append(a_sleeps, backoff)
              /\ a_attempt' = a_attempt + 1
              /\ a_pc' = IF a_rl THEN "limiter" ELSE "invoke"
              /\ a_result' = NoResult
         ELSE /\ a_sleeps' = a_sleeps
              /\ a_attempt' = a_attempt
              /\ a_pc' = "raised"
              /\ a_result' = ExhaustedError(a_policy, error)

\* What a failed attempt does: record the error, then either sleep and go to
\* the next attempt or leave the loop and raise (lines 114-125, 128-147).
FailedAttempt(error, backoff) ==
    /\ a_last_error' = error
    /\ a_retries' = a_attempt
    /\ IF a_attempt < a_policy.max_retries
         THEN /\ a_sleeps' = Append(a_sleeps, backoff)
              /\ a_attempt' = a_attempt + 1
              /\ a_pc' = IF a_rl THEN "limiter" ELSE "invoke"
              /\ a_result' = NoResult
         ELSE /\ a_sleeps' = a_sleeps
              /\ a_attempt' = a_attempt
              /\ a_pc' = "raised"
              /\ a_result' = ExhaustedError(a_policy, error)

\* rate_limiter.wait_if_needed(timeout=120.0) returns (lines 88-90).
LimiterGranted ==
    /\ AdapterFrame
    /\ a_pc = "limiter"
    /\ a_limiterCalls' = a_limiterCalls + 1
    /\ a_pc' = "invoke"
    /\ UNCHANGED <<a_policy, a_rl, a_attempt, a_retries, a_last_error, a_sleeps,
                   a_invocations, a_file, a_result, a_obs>>

\* wait_if_needed raises RateLimitError (daily cap, or its own timeout); the
\* adapter raises GeminiCLIError inside the try block (lines 91-94), which the
\* `except Exception` clause of the same try catches (lines 135-141).
LimiterRaised(reason) ==
    /\ AdapterFrame
    /\ a_pc = "limiter"
    /\ a_limiterCalls' = a_limiterCalls + 1
    /\ FailedAttempt([kind |-> "Rate limit exceeded", text |-> reason], StandardBackoff(a_attempt))
    /\ a_obs' = [a_obs EXCEPT
                   !.limiterErr = TRUE,
                   !.lastSeen = reason,
                   !.capSeen = @ \/ reason = "daily",
                   !.capSleeps = IF ~a_obs.capSeen /\ reason = "daily"
                                   THEN Len(a_sleeps) ELSE @,
                   !.capCalls = IF ~a_obs.capSeen /\ reason = "daily"
                                  THEN a_limiterCalls + 1 ELSE @,
                   !.capInvocations = IF ~a_obs.capSeen /\ reason = "daily"
                                        THEN a_invocations ELSE @]
    /\ UNCHANGED <<a_policy, a_rl, a_invocations, a_file>>

\* _invoke_gemini_cli returns exit code 0 (lines 96-108, 190-210).
InvokeSucceeds(stdout) ==
    /\ AdapterFrame
    /\ a_pc = "invoke"
    /\ a_invocations' = a_invocations + 1
    /\ a_file' = stdout
    /\ a_retries' = a_attempt
    /\ a_pc' = "returned"
    /\ a_result' = [kind |-> "return", exit_code |-> 0, output |-> stdout,
                    retries |-> a_attempt]
    /\ a_obs' = [a_obs EXCEPT !.signals = <<>>, !.fileOrigin = "last"]
    /\ UNCHANGED <<a_policy, a_rl, a_attempt, a_last_error, a_sleeps,
                   a_limiterCalls>>

\* _invoke_gemini_cli returns a non-zero exit code (lines 109-125, 201-208).
InvokeFails(stdout, stderr) ==
    /\ AdapterFrame
    /\ a_pc = "invoke"
    /\ a_invocations' = a_invocations + 1
    /\ a_file' = stdout
    /\ LET output == ErrorMsg(stderr)
           is_rate_limit == IsRateLimitError(output)
       IN /\ FailedAttempt([kind |-> "Gemini CLI exited with code 1", text |-> output],
                           IF is_rate_limit THEN RateLimitBackoff(a_attempt)
                                            ELSE StandardBackoff(a_attempt))
          /\ a_obs' = [a_obs EXCEPT !.rateLimited = @ \/ is_rate_limit,
                                    !.lastSeen = output,
                                    !.signals = <<>>,
                                    !.fileOrigin = "last"]
    /\ UNCHANGED <<a_policy, a_rl, a_limiterCalls>>

\* subprocess.run raises TimeoutExpired: nothing is written to output_path
\* (lines 127-133, 212-224).
InvokeTimesOut ==
    /\ AdapterFrame
    /\ a_pc = "invoke"
    /\ a_invocations' = a_invocations + 1
    /\ FailedAttempt([kind |-> "Timeout after", text |-> "timeout_sec"], StandardBackoff(a_attempt))
    /\ a_obs' = [a_obs EXCEPT
                   !.lastSeen = "timeout_sec",
                   !.signals =
                       RunTimeoutSignals \o HandlerSignals(TimeoutExpiredArgs),
                   !.fileOrigin = NotWritten(@)]
    /\ UNCHANGED <<a_policy, a_rl, a_limiterCalls, a_file>>

\* subprocess.run raises another exception, e.g. the binary is missing
\* (lines 135-141).
InvokeRaises ==
    /\ AdapterFrame
    /\ a_pc = "invoke"
    /\ a_invocations' = a_invocations + 1
    /\ FailedAttempt([kind |-> "str(e)", text |-> "OSError"], StandardBackoff(a_attempt))
    /\ a_obs' = [a_obs EXCEPT !.lastSeen = "OSError", !.signals = <<>>,
                               !.fileOrigin = NotWritten(@)]
    /\ UNCHANGED <<a_policy, a_rl, a_limiterCalls, a_file>>

\* The caller takes the result; the adapter can be called again.
AdapterDone ==
    /\ AdapterFrame
    /\ a_pc \in {"returned", "raised"}
    /\ a_pc' = "idle"
    /\ UNCHANGED <<a_policy, a_rl, a_attempt, a_retries, a_last_error, a_sleeps,
                   a_invocations, a_limiterCalls, a_file, a_result, a_obs>>

NextAdapter ==
    \/ \E n \in 0..MaxRetriesBound, id \in PromptIds, d \in BOOLEAN, rl \in BOOLEAN :
          ExecutePromptCall([prompt_id |-> id, max_retries |-> n], d, rl)
    \/ LimiterGranted
    \/ \E reason \in {"daily", "timeout"} : LimiterRaised(reason)
    \/ \E out \in OkStdouts : InvokeSucceeds(out)
    \/ \E out \in FailStdouts, err \in StderrTexts : InvokeFails(out, err)
    \/ InvokeTimesOut
    \/ InvokeRaises
    \/ AdapterDone

(***************************************************************************)
(* ManifestService: completion markers                                     *)
(***************************************************************************)

\* File contents of the model; "" is an empty (truncated) file.
Contents == {"", "report", "other"}

\* compute_file_hash of a file with the given content (sha256, taken to be
\* injective on the contents of the model).
Hash(content) ==
    CASE content = "" -> "e3b0c44298fc"
      [] content = "report" -> "sha256(report)"
      [] content = "other" -> "sha256(other)"
      [] content = "partial" -> "sha256(partial)"
      [] OTHER -> "sha256(?)"

WaveTypes == {"search", "aggregator", "tagger", "render", "export", "publish"}

\* Waves used as arguments in the explored calls.
CallWaves == {"search", "aggregator"}

\* No marker file.
NoMarker == [kind |-> "absent"]

\* A marker file that read_json or CompletionMarker(**data) rejects.
UnreadableMarker == [kind |-> "unreadable"]

\* CompletionMarker(...) as write_completion_marker builds it (lines 120-137).
MakeMarker(file, prompt_id, exit_code, retries, error_message) ==
    [kind |-> "marker", prompt_id |-> prompt_id, exit_code |-> exit_code,
     retries |-> retries,
     sha256 |-> IF file # Absent THEN Hash(file) ELSE None,
     error_message |-> error_message]

\* read_completion_marker: None when the file is missing or unreadable.
ReadCompletionMarker(marker) ==
    IF marker.kind = "marker" THEN marker ELSE NoMarker

IsCompleted_NoExitCheck(file, marker, force, forced_prompts, forced_waves, policy) ==
    IF force THEN FALSE
    ELSE IF forced_prompts # {} /\ policy.prompt_id \in forced_prompts THEN FALSE
    ELSE IF forced_waves # {} /\ policy.wave \in forced_waves THEN FALSE
    ELSE LET m == ReadCompletionMarker(marker)
         IN  IF m.kind # "marker" THEN FALSE
             ELSE IF file = Absent THEN FALSE
             ELSE IF m.sha256 # None /\ Hash(file) # m.sha256 THEN FALSE
             ELSE TRUE

\* ManifestService.is_completed for an output file with content `file` and
\* marker file `marker`.
IsCompleted(file, marker, force, forced_prompts, forced_waves, policy) ==
    IF force THEN FALSE
    ELSE IF forced_prompts # {} /\ policy.prompt_id \in forced_prompts THEN FALSE
    ELSE IF forced_waves # {} /\ policy.wave \in forced_waves THEN FALSE
    ELSE LET m == ReadCompletionMarker(marker)
         IN  IF m.kind # "marker" THEN FALSE
             ELSE IF file = Absent THEN FALSE
             ELSE IF m.exit_code # 0 THEN FALSE
             ELSE IF m.sha256 # None /\ Hash(file) # m.sha256 THEN FALSE
             ELSE TRUE

NoCheck == [kind |-> "none"]

NoMarkerObs == [written |-> FALSE, exit_code |-> 1, file |-> Absent]

InitManifest ==
    /\ m_file = Absent
    /\ m_marker = NoMarker
    /\ m_check = NoCheck
    /\ m_obs = NoMarkerObs

\* The external tool (or anything else) writes the output file: a new file, a
\* modification, or a truncation when content = "".
WriteOutput(content) ==
    /\ ManifestFrame
    /\ m_file # content
    /\ m_file' = content
    /\ m_check' = NoCheck
    /\ UNCHANGED <<m_marker, m_obs>>

\* The output file is deleted.
DeleteOutput ==
    /\ ManifestFrame
    /\ m_file # Absent
    /\ m_file' = Absent
    /\ m_check' = NoCheck
    /\ UNCHANGED <<m_marker, m_obs>>

WriteCompletionMarker_NoHash(prompt_id, exit_code, retries, error_message) ==
    /\ ManifestFrame
    /\ m_marker' = MakeMarker(Absent, prompt_id, exit_code, retries, error_message)
    /\ m_obs' = [written |-> TRUE, exit_code |-> exit_code, file |-> m_file]
    /\ m_check' = NoCheck
    /\ UNCHANGED m_file

\* ManifestService.write_completion_marker
WriteCompletionMarker(prompt_id, exit_code, retries, error_message) ==
    /\ ManifestFrame
    /\ m_marker' = MakeMarker(m_file, prompt_id, exit_code, retries, error_message)
    /\ m_obs' = [written |-> TRUE, exit_code |-> exit_code, file |-> m_file]
    /\ m_check' = NoCheck
    /\ UNCHANGED m_file

\* ManifestService.invalidate_completion_marker
InvalidateCompletionMarker ==
    /\ ManifestFrame
    /\ m_marker' = NoMarker
    /\ m_obs' = NoMarkerObs
    /\ m_check' = NoCheck
    /\ UNCHANGED m_file

\* The marker file is damaged (a partial write, a hand edit).
CorruptMarker ==
    /\ ManifestFrame
    /\ m_marker.kind = "marker"
    /\ m_marker' = UnreadableMarker
    /\ m_obs' = NoMarkerObs
    /\ m_check' = NoCheck
    /\ UNCHANGED m_file

\* A call of ManifestService.is_completed; it changes no file.
IsCompletedCall(force, forced_prompts, forced_waves, policy) ==
    /\ ManifestFrame
    /\ m_check' = [kind |-> "check", force |-> force,
                   forced_prompts |-> forced_prompts, forced_waves |-> forced_waves,
                   policy |-> policy,
                   result |-> IsCompleted(m_file, m_marker, force, forced_prompts,
                                          forced_waves, policy)]
    /\ UNCHANGED <<m_file, m_marker, m_obs>>

NextManifest ==
    \/ \E c \in Contents : WriteOutput(c)
    \/ DeleteOutput
    \/ \E e \in {0, 1}, r \in {0, 1} :
          WriteCompletionMarker("search_1", e, r, IF e = 0 THEN None ELSE "error")
    \/ InvalidateCompletionMarker
    \/ CorruptMarker
    \/ \E f \in BOOLEAN, fp \in SUBSET {"search_1", "search_2"},
          fw \in SUBSET CallWaves, w \in CallWaves :
          IsCompletedCall(f, fp, fw, [prompt_id |-> "search_1", wave |-> w])

(***************************************************************************)
(* FileLock                                                                *)
(***************************************************************************)

\* Processes, each with its own FileLock object on the same lock_path.
Procs == {"p1", "p2"}

\* ttl_seconds of the FileLock objects, in clock ticks: p2 is configured with
\* the longer one.
ShortTTL == 1
LongTTL == 3

\* Last clock value explored.
MaxTime == 3

\* self.ttl_seconds
TtlOf(p) == IF p = "p2" THEN LongTTL ELSE ShortTTL

\* No file at lock_path. A file has an inode, its content and the time of its
\* creation.
NoFile == [inode |-> None, meta |-> None, born |-> 0]

\* The content of a lock file that was created but not yet written: json.load
\* fails on it and _read_lock_metadata returns {}.
EmptyMeta == [pid |-> None, command |-> None, timestamp |-> 0, ttl |-> 0]

\* FileLock._read_lock_metadata: {} (here EmptyMeta) when the file is missing
\* or holds no JSON document.
ReadLockMetadata(file) == IF file.inode = None THEN EmptyMeta ELSE file.meta

NoOutcome == [proc |-> None, kind |-> "none", pid |-> None, command |-> None, age |-> 0]

\* The outcome `kind` of an acquire call of p.
Outcome(p, kind) == [NoOutcome EXCEPT !.proc = p, !.kind = kind]

\* No acquire call in progress.
NoAcq == [active |-> FALSE, force |-> FALSE, seen |-> "absent", age |-> 0,
          ttl |-> 0, orphan |-> FALSE, solo |-> TRUE]

\* lk_acq after a step of p that leaves p's own record as `own`: the calls in
\* progress of the other processes are no longer undisturbed when the step
\* changed the lock file or an advisory lock.
AcqAfter(p, own) ==
    [q \in Procs |->
        IF q = p THEN own
        ELSE IF lk_acq[q].active /\ (lk_file' # lk_file \/ lk_flock' # lk_flock)
        THEN [lk_acq[q] EXCEPT !.solo = FALSE]
        ELSE lk_acq[q]]

InitLock ==
    /\ lk_file = NoFile
    /\ lk_flock = [i \in Procs |-> None]
    /\ lk_pc = [p \in Procs |-> "idle"]
    /\ lk_fd = [p \in Procs |-> None]
    /\ lk_t0 = [p \in Procs |-> 0]
    /\ lk_res = NoOutcome
    /\ lk_now = 0
    /\ lk_forced = FALSE
    /\ lk_stray = FALSE
    /\ lk_acq = [p \in Procs |-> NoAcq]

\* A variant of the staleness test that keeps a lock of exactly the TTL.
StaleAge_Strict(age, ttl, recorded_ttl) == age > ttl

\* The staleness test of acquire (lines 55-66): `age < ttl` raises, with
\* ttl = self.ttl_seconds; the "ttl" recorded in the lock is not used.
StaleAge(age, ttl, recorded_ttl) == ~(age < ttl)

\* acquire, lines 44-66 up to the decision: proceed to create the file, remove
\* the existing file first, or raise LockError.
AcquireCheck(p, force) ==
    /\ LockFrame
    /\ lk_pc[p] = "idle"
    /\ lk_forced' = (lk_forced \/ force)
    /\ UNCHANGED <<lk_file, lk_flock, lk_fd, lk_t0, lk_now, lk_stray>>
    /\ LET existing_metadata == ReadLockMetadata(lk_file)
           age == lk_now - existing_metadata.timestamp
           readable == lk_file.inode # None /\ existing_metadata # EmptyMeta
           begun == [active |-> TRUE, force |-> force,
                     seen |-> IF lk_file.inode = None THEN "absent"
                              ELSE IF readable THEN "readable" ELSE "unreadable",
                     age |-> IF lk_file.inode = None THEN 0
                             ELSE lk_now - lk_file.born,
                     ttl |-> IF readable THEN existing_metadata.ttl ELSE 0,
                     orphan |-> lk_file.inode # None /\ lk_pc[lk_file.inode] = "idle",
                     solo |-> TRUE]
       IN  IF lk_file.inode = None
             THEN /\ lk_pc' = [lk_pc EXCEPT ![p] = "create"]
                  /\ lk_res' = lk_res
                  /\ lk_acq' = AcqAfter(p, begun)
           ELSE IF force
             THEN /\ lk_pc' = [lk_pc EXCEPT ![p] = "unlink"]
                  /\ lk_res' = lk_res
                  /\ lk_acq' = AcqAfter(p, begun)
           ELSE IF existing_metadata = EmptyMeta
             THEN /\ lk_pc' = [lk_pc EXCEPT ![p] = "create"]
                  /\ lk_res' = lk_res
                  /\ lk_acq' = AcqAfter(p, begun)
           ELSE IF ~StaleAge(age, TtlOf(p), existing_metadata.ttl)
             THEN /\ lk_pc' = lk_pc
                  /\ lk_res' = [Outcome(p, "LockError: already held") EXCEPT
                                   !.pid = existing_metadata.pid,
                                   !.command = existing_metadata.command,
                                   !.age = age]
                  /\ lk_acq' = AcqAfter(p, NoAcq)
           ELSE /\ lk_pc' = [lk_pc EXCEPT ![p] = "unlink"]
                /\ lk_res' = lk_res
                /\ lk_acq' = AcqAfter(p, begun)

\* self.lock_path.unlink() (lines 50, 66): removes whatever file is at the
\* path now; raises FileNotFoundError when there is none.
AcquireUnlink(p) ==
    /\ LockFrame
    /\ lk_pc[p] = "unlink"
    /\ UNCHANGED <<lk_flock, lk_fd, lk_t0, lk_now, lk_forced, lk_stray>>
    /\ IF lk_file.inode # None
         THEN /\ lk_file' = NoFile
              /\ lk_pc' = [lk_pc EXCEPT ![p] = "create"]
              /\ lk_res' = lk_res
              /\ lk_acq' = AcqAfter(p, lk_acq[p])
         ELSE /\ lk_file' = lk_file
              /\ lk_pc' = [lk_pc EXCEPT ![p] = "idle"]
              /\ lk_res' = Outcome(p, "FileNotFoundError")
              /\ lk_acq' = AcqAfter(p, NoAcq)

\* self.metadata = {...}; os.open(O_CREAT | O_EXCL | O_WRONLY) (lines 69-80).
\* The file created is a new inode: a descriptor another process still has on
\* an earlier, unlinked file of p, and the flock on it, are on a different
\* inode ("unlinked") and exclude nobody.
AcquireCreate(p) ==
    /\ LockFrame
    /\ lk_pc[p] = "create"
    /\ UNCHANGED <<lk_now, lk_forced, lk_stray>>
    /\ IF lk_file.inode = None
         THEN /\ lk_file' = [inode |-> p, meta |-> EmptyMeta, born |-> lk_now]
              /\ lk_flock' = [lk_flock EXCEPT ![p] = None]
              /\ lk_fd' = [q \in Procs |->
                             IF q = p THEN p
                             ELSE IF lk_fd[q] = p THEN "unlinked" ELSE lk_fd[q]]
              /\ lk_t0' = [lk_t0 EXCEPT ![p] = lk_now]
              /\ lk_pc' = [lk_pc EXCEPT ![p] = "write"]
              /\ lk_res' = lk_res
              /\ lk_acq' = AcqAfter(p, lk_acq[p])
         ELSE /\ lk_file' = lk_file
              /\ lk_flock' = lk_flock
              /\ lk_fd' = lk_fd
              /\ lk_t0' = lk_t0
              /\ lk_pc' = [lk_pc EXCEPT ![p] = "idle"]
              /\ lk_res' = Outcome(p, "LockError: failed to acquire")
              /\ lk_acq' = AcqAfter(p, NoAcq)

\* os.write, os.close, os.open(O_RDONLY), fcntl.flock(LOCK_EX | LOCK_NB)
\* (lines 81-91). The write goes to the inode created; the reopen and the flock
\* go to whatever file is at the path now.
AcquireFinish(p) ==
    /\ LockFrame
    /\ lk_pc[p] = "write"
    /\ UNCHANGED <<lk_now, lk_forced, lk_stray>>
    /\ LET written == IF lk_file.inode = p
                        THEN [lk_file EXCEPT !.meta =
                                [pid |-> p, command |-> "run",
                                 timestamp |-> lk_t0[p], ttl |-> TtlOf(p)]]
                        ELSE lk_file
       IN  /\ lk_file' = written
           /\ IF written.inode # None /\ lk_flock[written.inode] = None
                 THEN /\ lk_flock' = [lk_flock EXCEPT ![written.inode] = p]
                      /\ lk_fd' = [lk_fd EXCEPT ![p] = written.inode]
                      /\ lk_t0' = lk_t0
                      /\ lk_pc' = [lk_pc EXCEPT ![p] = "held"]
                      /\ lk_res' = Outcome(p, "ok")
                 ELSE /\ lk_flock' = lk_flock
                      /\ lk_fd' = [lk_fd EXCEPT ![p] = None]
                      /\ lk_t0' = [lk_t0 EXCEPT ![p] = 0]
                      /\ lk_pc' = [lk_pc EXCEPT ![p] = "idle"]
                      /\ lk_res' = Outcome(p, "LockError: failed to acquire")
    /\ lk_acq' = AcqAfter(p, NoAcq)

\* A variant of release that keeps the lock file.
Release_KeepsFile(p) ==
    /\ LockFrame
    /\ lk_pc[p] \in {"idle", "held"}
    /\ lk_flock' = [i \in Procs |-> IF lk_fd[p] = i /\ lk_flock[i] = p
                                      THEN None ELSE lk_flock[i]]
    /\ lk_fd' = [lk_fd EXCEPT ![p] = None]
    /\ lk_file' = lk_file
    /\ lk_pc' = [lk_pc EXCEPT ![p] = "idle"]
    /\ lk_t0' = [lk_t0 EXCEPT ![p] = 0]
    /\ lk_stray' = (lk_stray \/ lk_pc[p] # "held" \/ lk_file.inode # p)
    /\ UNCHANGED <<lk_res, lk_now, lk_forced>>
    /\ lk_acq' = AcqAfter(p, NoAcq)

\* FileLock.release (lines 93-108): drop flock and close if lock_file is set,
\* then unlink whatever file is at lock_path.
Release(p) ==
    /\ LockFrame
    /\ lk_pc[p] \in {"idle", "held"}
    /\ lk_flock' = [i \in Procs |-> IF lk_fd[p] = i /\ lk_flock[i] = p
                                      THEN None ELSE lk_flock[i]]
    /\ lk_fd' = [lk_fd EXCEPT ![p] = None]
    /\ lk_file' = NoFile
    /\ lk_pc' = [lk_pc EXCEPT ![p] = "idle"]
    /\ lk_t0' = [lk_t0 EXCEPT ![p] = 0]
    /\ lk_stray' = (lk_stray \/ lk_pc[p] # "held" \/ lk_file.inode # p)
    /\ UNCHANGED <<lk_res, lk_now, lk_forced>>
    /\ lk_acq' = AcqAfter(p, NoAcq)

\* The process is killed while holding the lock, or in acquire after it has
\* created the lock file: its descriptors are closed by the kernel (the flock
\* goes with them), the lock file stays. A later invocation under the same
\* name is a new process with a new FileLock.
Crash(p) ==
    /\ LockFrame
    /\ lk_pc[p] \in {"write", "held"}
    /\ lk_flock' = [i \in Procs |-> IF lk_flock[i] = p THEN None ELSE lk_flock[i]]
    /\ lk_fd' = [lk_fd EXCEPT ![p] = None]
    /\ lk_pc' = [lk_pc EXCEPT ![p] = "idle"]
    /\ lk_t0' = [lk_t0 EXCEPT ![p] = 0]
    /\ UNCHANGED <<lk_file, lk_res, lk_now, lk_forced, lk_stray>>
    /\ lk_acq' = AcqAfter(p, NoAcq)

\* Time passes.
Tick ==
    /\ LockFrame
    /\ lk_now < MaxTime
    /\ lk_now' = lk_now + 1
    /\ UNCHANGED <<lk_file, lk_flock, lk_pc, lk_fd, lk_t0, lk_res, lk_forced,
                   lk_stray, lk_acq>>

NextLock ==
    \/ \E p \in Procs, force \in BOOLEAN : AcquireCheck(p, force)
    \/ \E p \in Procs : AcquireUnlink(p)
    \/ \E p \in Procs : AcquireCreate(p)
    \/ \E p \in Procs : AcquireFinish(p)
    \/ \E p \in Procs : Release(p)
    \/ \E p \in Procs : Crash(p)
    \/ Tick

(***************************************************************************)
(* RunnerService.execute_wave (services/runner.py)                         *)
(***************************************************************************)

\* Number of execute_wave calls explored in a row.
MaxCalls == 2

\* The largest policy.max_retries among the units of the model.
UnitMaxRetries == 1

\* Unexpected exceptions (other than GeminiCLIError) raised by the workers of
\* one call.
MaxFaults == 1

Dates == {"2025-11-14"}

\* PromptPolicy records. expected_outputs is a file name, kept as the pieces
\* of its stem and its extension so that "{date}" can be replaced.
Policy(prompt_id, wave, stem, ext, concurrency_class, max_retries) ==
    [prompt_id |-> prompt_id, wave |-> wave,
     expected_outputs |-> [stem |-> stem, ext |-> ext],
     concurrency_class |-> concurrency_class, max_retries |-> max_retries]

\* A registry whose two search units write a.md and b.md.
RegistryDistinct ==
    << Policy("s1", "search", <<"a">>, "md", "low", 0),
       Policy("s2", "search", <<"b">>, "md", "medium", 0),
       Policy("g1", "aggregator", <<"daily_report_", "{date}">>, "md", "sequential",
              UnitMaxRetries) >>

\* A registry whose two search units write a.md and a.json.
RegistrySameStem ==
    << Policy("s1", "search", <<"a">>, "md", "sequential", 0),
       Policy("s2", "search", <<"a">>, "json", "low", 0),
       Policy("g1", "aggregator", <<"daily_report_", "{date}">>, "md", "sequential",
              UnitMaxRetries) >>

\* The registries of the model, by name; a call's `prompts` argument is the
\* list loaded from one of them.
Registries == {"distinct", "same_stem"}

LoadRegistry(name) ==
    IF name = "distinct" THEN RegistryDistinct ELSE RegistrySameStem

UnitIds == {"s1", "s2", "g1"}

RangeOf(seq) == {seq[i] : i \in DOMAIN seq}

\* A variant that does not filter the registry by wave.
WavePrompts_All(prompts, wave) == prompts

\* [p for p in prompts if p.wave == wave]
WavePrompts(prompts, wave) == SelectSeq(prompts, LAMBDA p : p.wave = wave)

PolicyOf(prompts, id) == CHOOSE p \in RangeOf(prompts) : p.prompt_id = id

\* str.replace("{date}", date) on the stem of a file name.
ReplaceDate(stem, date) ==
    [i \in DOMAIN stem |-> IF stem[i] = "{date}" THEN date ELSE stem[i]]

\* self.pool_sizes
PoolSize(concurrency_class) ==
    CASE concurrency_class = "sequential" -> 1
      [] concurrency_class = "low" -> 2
      [] concurrency_class = "medium" -> 4
      [] concurrency_class = "high" -> 8

RECURSIVE MinOf(_)
MinOf(seq) ==
    IF Len(seq) = 1 THEN seq[1] ELSE Min(seq[1], MinOf(Tail(seq)))

RECURSIVE MaxOf(_)
MaxOf(seq) ==
    IF Len(seq) = 1 THEN seq[1] ELSE LET m == MaxOf(Tail(seq))
                                     IN  IF seq[1] >= m THEN seq[1] ELSE m

\* A variant that takes the largest pool size of the wave's units.
GetMaxWorkers_Max(prompts) ==
    IF \E p \in RangeOf(prompts) : p.concurrency_class = "sequential" THEN 1
    ELSE IF prompts = <<>> THEN 1
    ELSE MaxOf([i \in DOMAIN prompts |-> PoolSize(prompts[i].concurrency_class)])

\* RunnerService._get_max_workers
GetMaxWorkers(prompts) ==
    IF \E p \in RangeOf(prompts) : p.concurrency_class = "sequential" THEN 1
    ELSE IF prompts = <<>> THEN 1
    ELSE MinOf([i \in DOMAIN prompts |-> PoolSize(prompts[i].concurrency_class)])

\* RunnerService._get_output_path: the branches for the aggregator, tagger,
\* render and export waves replace "{date}" in expected_outputs; the branch
\* for the search wave and the fallback (the publish wave) do not.
GetOutputPath(prompt, date) ==
    CASE prompt.wave = "search" ->
            [dir |-> <<"data", "outputs", "daily", date>>,
             stem |-> prompt.expected_outputs.stem,
             ext |-> prompt.expected_outputs.ext]
      [] prompt.wave = "aggregator" ->
            [dir |-> <<"data", "reports">>,
             stem |-> ReplaceDate(prompt.expected_outputs.stem, date),
             ext |-> prompt.expected_outputs.ext]
      [] prompt.wave = "tagger" ->
            [dir |-> <<"data", "publishing">>,
             stem |-> ReplaceDate(prompt.expected_outputs.stem, date),
             ext |-> prompt.expected_outputs.ext]
      [] prompt.wave = "render" ->
            [dir |-> <<"dashboards">>,
             stem |-> ReplaceDate(prompt.expected_outputs.stem, date),
             ext |-> prompt.expected_outputs.ext]
      [] prompt.wave = "export" ->
            [dir |-> <<"data", "publishing">>,
             stem |-> ReplaceDate(prompt.expected_outputs.stem, date),
             ext |-> prompt.expected_outputs.ext]
      [] OTHER ->
            [dir |-> <<"data", "outputs">>,
             stem |-> prompt.expected_outputs.stem,
             ext |-> prompt.expected_outputs.ext]

\* output_path.parent / f".nh_status_{output_path.stem}.json"
MarkerPath(output_path) ==
    [dir |-> output_path.dir, stem |-> <<".nh_status_">> \o output_path.stem,
     ext |-> "json"]

\* ManifestService.build_dependency_graph(prompts, date)[prompt_id]: the
\* aggregator depends on the search units' expected outputs in the dated
\* directory; the later waves depend on files with fixed names.
BuildDependencyGraph(prompts, date, prompt_id) ==
    LET prompt == PolicyOf(prompts, prompt_id)
        search_prompts == WavePrompts(prompts, "search")
        daily_report == [dir |-> <<"data", "reports">>,
                         stem |-> <<"daily_report_", date>>, ext |-> "md"]
        tags_file == [dir |-> <<"data", "publishing">>,
                      stem |-> <<"tags_", date>>, ext |-> "json"]
        export_file == [dir |-> <<"data", "publishing">>,
                        stem |-> <<date>>, ext |-> "json"]
    IN  CASE prompt.wave = "aggregator" ->
                [i \in DOMAIN search_prompts |->
                    [dir |-> <<"data", "outputs", "daily", date>>,
                     stem |-> search_prompts[i].expected_outputs.stem,
                     ext |-> search_prompts[i].expected_outputs.ext]]
          [] prompt.wave = "tagger" -> <<daily_report>>
          [] prompt.wave = "render" -> <<daily_report>>
          [] prompt.wave = "export" -> <<daily_report, tags_file>>
          [] prompt.wave = "publish" -> <<export_file>>
          [] OTHER -> <<>>

OutputPaths ==
    {GetOutputPath(p, d) :
        p \in UNION {RangeOf(LoadRegistry(r)) : r \in Registries}, d \in Dates}

MarkerPaths == {MarkerPath(x) : x \in OutputPaths}

\* What execute_prompt produced for a unit: nothing yet, a returned tuple
\* ("ok") or a GeminiCLIError ("err").
NoOut == [kind |-> "none", exit_code |-> 0, retries |-> 0, error_message |-> None]

\* The text in the GeminiCLIError of a call that the limiter's daily cap
\* stopped (gemini_cli.py:91-94).
DailyCapMessage == "Rate limit exceeded"

\* A unit that is not part of the call.
NoUnit ==
    [pc |-> "out", out |-> NoOut, inv |-> 0, result |-> "none",
     skipped |-> FALSE, marker_written |-> FALSE, raised |-> FALSE]

PendingUnit == [NoUnit EXCEPT !.pc = "pending"]

NoCall ==
    [status |-> "idle", n |-> 0, wave |-> None, registry |-> None, date |-> None,
     forced_prompts |-> {}, forced_waves |-> {}, dry_run |-> FALSE,
     valid |-> FALSE]

\* `forced` says whether the call had forced units or forced waves,
\* `ledgered` which units it appended a successful ledger entry for.
NoPrev ==
    [status |-> "none", wave |-> None, forced |-> FALSE, dry_run |-> FALSE,
     completed |-> {}, failed |-> {}, capped |-> FALSE, ledgered |-> {}]

InitWave ==
    /\ w_file = [x \in OutputPaths |-> Absent]
    /\ w_marker = [x \in MarkerPaths |-> NoMarker]
    /\ w_ledger = <<>>
    /\ w_call = NoCall
    /\ w_unit = [u \in UnitIds |-> NoUnit]
    /\ w_completed = <<>>
    /\ w_failed = <<>>
    /\ w_prev = NoPrev

\* The policy and the output path of unit u in the current call.
Prompts == LoadRegistry(w_call.registry)
UnitPolicy(u) == PolicyOf(Prompts, u)
UnitPath(u) == GetOutputPath(UnitPolicy(u), w_call.date)

\* Ids of the units of the current call's wave, in submission order.
WaveIds ==
    LET wp == WavePrompts(Prompts, w_call.wave)
    IN  [i \in DOMAIN wp |-> wp[i].prompt_id]

\* execute_wave is called (lines 73-104): the wave's units are submitted to
\* the pool; a wave without units returns ([], []) at once.
\* The registry and the date stay the same from one call to the next.
ExecuteWaveBody(wave, registry, date, forced_prompts, forced_waves, dry_run) ==
    /\ w_call.status \in {"idle", "returned", "killed"}
    /\ w_call.n > 0 => (registry = w_call.registry /\ date = w_call.date)
    /\ LET wave_prompts == WavePrompts(LoadRegistry(registry), wave)
           ids == {wave_prompts[i].prompt_id : i \in DOMAIN wave_prompts}
       IN  /\ w_call' =
                 [status |-> IF wave_prompts = <<>> THEN "returned" ELSE "running",
                  n |-> w_call.n + 1, wave |-> wave, registry |-> registry,
                  date |-> date, forced_prompts |-> forced_prompts,
                  forced_waves |-> forced_waves, dry_run |-> dry_run,
                  valid |-> \A q \in RangeOf(wave_prompts) :
                               IsCompleted(w_file[GetOutputPath(q, date)],
                                           w_marker[MarkerPath(GetOutputPath(q, date))],
                                           FALSE, {}, {}, q)]
           /\ w_unit' = [u \in UnitIds |-> IF u \in ids THEN PendingUnit ELSE NoUnit]
    /\ w_prev' =
          IF w_call.status \in {"returned", "killed"}
          THEN [status |-> w_call.status, wave |-> w_call.wave,
                forced |-> (w_call.forced_prompts # {} \/ w_call.forced_waves # {}),
                dry_run |-> w_call.dry_run,
                completed |-> RangeOf(w_completed), failed |-> RangeOf(w_failed),
                capped |-> (w_prev.capped \/ \E u \in UnitIds :
                               w_unit[u].out.error_message = DailyCapMessage),
                ledgered |-> {w_ledger[i].prompt_id :
                                 i \in {k \in DOMAIN w_ledger : w_ledger[k].success}}]
          ELSE w_prev
    /\ w_completed' = <<>>
    /\ w_failed' = <<>>
    /\ w_ledger' = <<>>
    /\ UNCHANGED <<w_file, w_marker>>

\* execute_wave called directly, MaxCalls times in a row at most.
ExecuteWave(wave, registry, date, forced_prompts, forced_waves, dry_run) ==
    /\ WaveFrame
    /\ w_call.n < MaxCalls
    /\ ExecuteWaveBody(wave, registry, date, forced_prompts, forced_waves, dry_run)

\* A variant of the as_completed loop that lets a worker's exception out.
FutureOutcome_Propagates(result) ==
    CASE result = "true" -> "completed"
      [] result = "false" -> "failed"
      [] OTHER -> "raise"

\* The as_completed loop of execute_wave (lines 107-119) on a finished
\* future: its id goes to `completed` when the worker returned True, to
\* `failed` when it returned False or raised.
FutureOutcome(result) ==
    IF result = "true" THEN "completed" ELSE "failed"

\* The worker of u ends with `result` and the loop takes its future. The
\* loop only touches its own locals, so both are one step.
TakeFuture(u, result) ==
    /\ w_completed' = IF FutureOutcome(result) = "completed"
                      THEN Append(w_completed, u) ELSE w_completed
    /\ w_failed' = IF FutureOutcome(result) = "failed"
                   THEN Append(w_failed, u) ELSE w_failed
    /\ w_call' = IF FutureOutcome(result) = "raise"
                 THEN [w_call EXCEPT !.status = "raised"] ELSE w_call

\* Workers currently inside _execute_single_prompt.
Busy == {u \in UnitIds : w_unit[u].pc \in {"invoke", "marker", "ledger"}}

\* The next task a free worker of the pool takes: the first one submitted
\* that has not started.
NextPending(u) ==
    \E i \in DOMAIN WaveIds :
        /\ WaveIds[i] = u
        /\ w_unit[u].pc = "pending"
        /\ \A j \in 1..(i - 1) : w_unit[WaveIds[j]].pc # "pending"

\* A variant in which a task starts whether or not a worker is free.
StartUnit_Unbounded(u) ==
    /\ WaveFrame
    /\ w_call.status = "running"
    /\ w_unit[u].pc = "pending"
    /\ LET prompt == UnitPolicy(u)
           force == \/ (w_call.forced_prompts # {} /\ u \in w_call.forced_prompts)
                    \/ (w_call.forced_waves # {} /\ prompt.wave \in w_call.forced_waves)
       IN  IF IsCompleted(w_file[UnitPath(u)], w_marker[MarkerPath(UnitPath(u))],
                          force, w_call.forced_prompts, w_call.forced_waves, prompt)
           THEN /\ w_unit' = [w_unit EXCEPT ![u].pc = "done", ![u].result = "true",
                                              ![u].skipped = TRUE]
                /\ TakeFuture(u, "true")
           ELSE /\ w_unit' = [w_unit EXCEPT ![u].pc = "invoke"]
                /\ UNCHANGED <<w_call, w_completed, w_failed>>
    /\ UNCHANGED <<w_file, w_marker, w_ledger, w_prev>>

\* A worker of the pool (ThreadPoolExecutor(max_workers), line 89) takes the
\* next task and runs _execute_single_prompt, lines 156-176: the completion
\* check.
StartUnit(u) ==
    /\ WaveFrame
    /\ w_call.status = "running"
    /\ NextPending(u)
    /\ Cardinality(Busy) < GetMaxWorkers(WavePrompts(Prompts, w_call.wave))
    /\ LET prompt == UnitPolicy(u)
           force == \/ (w_call.forced_prompts # {} /\ u \in w_call.forced_prompts)
                    \/ (w_call.forced_waves # {} /\ prompt.wave \in w_call.forced_waves)
       IN  IF IsCompleted(w_file[UnitPath(u)], w_marker[MarkerPath(UnitPath(u))],
                          force, w_call.forced_prompts, w_call.forced_waves, prompt)
           THEN /\ w_unit' = [w_unit EXCEPT ![u].pc = "done", ![u].result = "true",
                                              ![u].skipped = TRUE]
                /\ TakeFuture(u, "true")
           ELSE /\ w_unit' = [w_unit EXCEPT ![u].pc = "invoke"]
                /\ UNCHANGED <<w_call, w_completed, w_failed>>
    /\ UNCHANGED <<w_file, w_marker, w_ledger, w_prev>>

\* execute_prompt with dry_run: returns (0, ..., 0) without running the tool.
ExecutePromptDryRun(u) ==
    /\ WaveFrame
    /\ w_unit[u].pc = "invoke"
    /\ w_call.dry_run
    /\ w_unit' = [w_unit EXCEPT ![u].pc = "marker",
                                ![u].out = [NoOut EXCEPT !.kind = "ok"]]
    /\ UNCHANGED <<w_file, w_marker, w_ledger, w_call, w_completed, w_failed, w_prev>>

\* execute_prompt returns exit code 0 after `retries` failed attempts; the
\* tool ran retries + 1 times and the last run wrote `content`.
ExecutePromptReturns(u, content, retries) ==
    /\ WaveFrame
    /\ w_unit[u].pc = "invoke"
    /\ ~w_call.dry_run
    /\ retries \in 0..UnitPolicy(u).max_retries
    /\ w_file' = [w_file EXCEPT ![UnitPath(u)] = content]
    /\ w_unit' = [w_unit EXCEPT ![u].pc = "marker",
                                ![u].inv = @ + retries + 1,
                                ![u].out = [NoOut EXCEPT !.kind = "ok",
                                                         !.retries = retries]]
    /\ UNCHANGED <<w_marker, w_ledger, w_call, w_completed, w_failed, w_prev>>

\* execute_prompt raises GeminiCLIError after max_retries + 1 attempts. The
\* attempts that exited non-zero wrote their stdout to the output file; the
\* ones that timed out did not.
ExecutePromptRaises(u, wrote) ==
    /\ WaveFrame
    /\ w_unit[u].pc = "invoke"
    /\ ~w_call.dry_run
    /\ w_file' = IF wrote THEN [w_file EXCEPT ![UnitPath(u)] = "partial"] ELSE w_file
    /\ w_unit' = [w_unit EXCEPT ![u].pc = "marker",
                                ![u].inv = @ + UnitPolicy(u).max_retries + 1,
                                ![u].out = [NoOut EXCEPT !.kind = "err",
                                                         !.exit_code = 1,
                                                         !.error_message = "GeminiCLIError"]]
    /\ UNCHANGED <<w_marker, w_ledger, w_call, w_completed, w_failed, w_prev>>

\* execute_prompt raises GeminiCLIError because rate_limiter.wait_if_needed
\* raised RateLimitError, the daily cap being exhausted
\* (gemini_cli.py:87-94): the tool is not run.
ExecutePromptDailyCap(u) ==
    /\ WaveFrame
    /\ w_unit[u].pc = "invoke"
    /\ ~w_call.dry_run
    /\ w_unit' = [w_unit EXCEPT ![u].pc = "marker",
                                ![u].out = [NoOut EXCEPT !.kind = "err",
                                                         !.exit_code = 1,
                                                         !.error_message = DailyCapMessage]]
    /\ UNCHANGED <<w_file, w_marker, w_ledger, w_call, w_completed, w_failed, w_prev>>

\* write_completion_marker, on the success path (lines 198-205) and in the
\* GeminiCLIError handler (lines 249-256, retries left at its default 0).
WriteMarker(u) ==
    /\ WaveFrame
    /\ w_unit[u].pc = "marker"
    /\ w_marker' = [w_marker EXCEPT ![MarkerPath(UnitPath(u))] =
                       MakeMarker(w_file[UnitPath(u)], u, w_unit[u].out.exit_code,
                                  w_unit[u].out.retries, w_unit[u].out.error_message)]
    /\ w_unit' = [w_unit EXCEPT ![u].pc = "ledger", ![u].marker_written = TRUE]
    /\ UNCHANGED <<w_file, w_ledger, w_call, w_completed, w_failed, w_prev>>

\* write_completion_marker raises (write_json fails): the exception leaves
\* _execute_single_prompt.
WriteMarkerRaises(u) ==
    /\ WaveFrame
    /\ w_unit[u].pc = "marker"
    /\ Cardinality({v \in UnitIds : w_unit[v].raised}) < MaxFaults
    /\ w_unit' = [w_unit EXCEPT ![u].pc = "done", ![u].result = "exc",
                                ![u].raised = TRUE]
    /\ TakeFuture(u, "exc")
    /\ UNCHANGED <<w_file, w_marker, w_ledger, w_prev>>

\* The entry write_ledger_entry appends on the success path (lines 208-233).
SuccessEntry(u) ==
    [run_id |-> w_call.n, prompt_id |-> u,
     success |-> (w_unit[u].out.exit_code = 0),
     retries |-> w_unit[u].out.retries,
     output_sha256 |-> IF w_file[UnitPath(u)] # Absent
                       THEN Hash(w_file[UnitPath(u)]) ELSE None,
     dependent_inputs |-> BuildDependencyGraph(Prompts, w_call.date, u),
     output_paths |-> <<UnitPath(u)>>,
     error_message |-> None]

\* The entry appended in the GeminiCLIError handler (lines 259-269):
\* retries, output_sha256, dependent_inputs and output_paths are not passed.
FailureEntry(u) ==
    [run_id |-> w_call.n, prompt_id |-> u, success |-> FALSE, retries |-> 0,
     output_sha256 |-> None, dependent_inputs |-> <<>>, output_paths |-> <<>>,
     error_message |-> w_unit[u].out.error_message]

\* write_ledger_entry and the return of _execute_single_prompt.
WriteLedger(u) ==
    /\ WaveFrame
    /\ w_unit[u].pc = "ledger"
    /\ w_ledger' = Append(w_ledger, IF w_unit[u].out.kind = "ok"
                                    THEN SuccessEntry(u) ELSE FailureEntry(u))
    /\ LET result == IF w_unit[u].out.kind = "ok" /\ w_unit[u].out.exit_code = 0
                     THEN "true" ELSE "false"
       IN  /\ w_unit' = [w_unit EXCEPT ![u].pc = "done", ![u].result = result]
           /\ TakeFuture(u, result)
    /\ UNCHANGED <<w_file, w_marker, w_prev>>

\* write_ledger_entry raises (append_jsonl fails).
WriteLedgerRaises(u) ==
    /\ WaveFrame
    /\ w_unit[u].pc = "ledger"
    /\ Cardinality({v \in UnitIds : w_unit[v].raised}) < MaxFaults
    /\ w_unit' = [w_unit EXCEPT ![u].pc = "done", ![u].result = "exc",
                                ![u].raised = TRUE]
    /\ TakeFuture(u, "exc")
    /\ UNCHANGED <<w_file, w_marker, w_ledger, w_prev>>

\* A variant of execute_wave that returns without draining its pool.
ReturnWave_NoDrain ==
    /\ WaveFrame
    /\ w_call.status = "running"
    /\ w_call' = [w_call EXCEPT !.status = "returned"]
    /\ UNCHANGED <<w_file, w_marker, w_ledger, w_unit, w_completed, w_failed, w_prev>>

\* execute_wave returns (completed, failed) once every future was taken.
ReturnWave ==
    /\ WaveFrame
    /\ w_call.status = "running"
    /\ \A u \in RangeOf(WaveIds) : w_unit[u].pc = "done"
    /\ w_call' = [w_call EXCEPT !.status = "returned"]
    /\ UNCHANGED <<w_file, w_marker, w_ledger, w_unit, w_completed, w_failed, w_prev>>

\* Arguments of the explored calls.
ForcedArgs ==
    { [forced_prompts |-> {}, forced_waves |-> {}],
      [forced_prompts |-> {"s1"}, forced_waves |-> {}],
      [forced_prompts |-> {}, forced_waves |-> {"search"}] }
WaveArgs == {"search", "aggregator", "tagger"}
ToolOutputs == {"report", "other"}

NextWave ==
    \/ \E wave \in WaveArgs, registry \in Registries, date \in Dates,
          forced \in ForcedArgs, dry_run \in BOOLEAN :
          ExecuteWave(wave, registry, date, forced.forced_prompts,
                      forced.forced_waves, dry_run)
    \/ \E u \in UnitIds : StartUnit(u)
    \/ \E u \in UnitIds : ExecutePromptDryRun(u)
    \/ \E u \in UnitIds, content \in ToolOutputs, retries \in 0..UnitMaxRetries :
          ExecutePromptReturns(u, content, retries)
    \/ \E u \in UnitIds, wrote \in BOOLEAN : ExecutePromptRaises(u, wrote)
    \/ \E u \in UnitIds : WriteMarker(u)
    \/ \E u \in UnitIds : WriteMarkerRaises(u)
    \/ \E u \in UnitIds : WriteLedger(u)
    \/ \E u \in UnitIds : WriteLedgerRaises(u)
    \/ ReturnWave

(***************************************************************************)
(* nh run: the wave loop of main (nh_cli/commands/run.py)                  *)
(***************************************************************************)

\* waves_to_run when no --wave option is given (lines 143-149).
DefaultWaves == <<"search", "aggregator", "tagger", "render", "export">>

\* Values of the --wave and --force options in the explored invocations.
WaveOptions == {None, "search", "aggregator", "bogus"}
ForceOptions == {None, "s1", "search"}

NoRun ==
    [status |-> "idle", waves |-> <<>>, idx |-> 0, taken |-> 0,
     registry |-> None, date |-> None, forced_prompts |-> {},
     forced_waves |-> {}, dry_run |-> FALSE,
     all_completed |-> <<>>, all_failed |-> <<>>]

InitRun == r_run = NoRun

\* main up to the wave loop: the --wave option selects one wave or all five
\* (an invalid one exits with code 10), the --force option names a wave or
\* else a unit (lines 131-161). The lock taken around the loop is FileLock.
RunMain(wave, force, dry_run, registry, date) ==
    /\ RunFrame
    /\ r_run.status = "idle"
    /\ w_call.status = "idle"
    /\ r_run' =
          IF wave # None /\ wave \notin WaveTypes
          THEN [NoRun EXCEPT !.status = "exit10"]
          ELSE [NoRun EXCEPT
                   !.status = "running",
                   !.waves = IF wave # None THEN <<wave>> ELSE DefaultWaves,
                   !.registry = registry, !.date = date,
                   !.forced_waves = IF force \in WaveTypes THEN {force} ELSE {},
                   !.forced_prompts = IF force # None /\ force \notin WaveTypes
                                      THEN {force} ELSE {},
                   !.dry_run = dry_run]
    /\ UNCHANGED waveVars

\* The loop calls runner.execute_wave for the next wave (lines 208-219).
RunExecuteWave ==
    /\ RunFrame
    /\ r_run.status = "running"
    /\ r_run.taken = r_run.idx
    /\ r_run.idx < Len(r_run.waves)
    /\ ExecuteWaveBody(r_run.waves[r_run.idx + 1], r_run.registry, r_run.date,
                       r_run.forced_prompts, r_run.forced_waves, r_run.dry_run)
    /\ r_run' = [r_run EXCEPT !.idx = @ + 1]

\* execute_wave returned: all_completed.extend, all_failed.extend
\* (lines 220-221).
RunExtend ==
    /\ RunFrame
    /\ r_run.status = "running"
    /\ r_run.taken < r_run.idx
    /\ w_call.status = "returned"
    /\ r_run' = [r_run EXCEPT !.taken = r_run.idx,
                              !.all_completed = @ \o w_completed,
                              !.all_failed = @ \o w_failed]
    /\ UNCHANGED waveVars

\* After the loop: exit code 30 when a unit failed, 0 otherwise
\* (lines 274-282).
RunFinish ==
    /\ RunFrame
    /\ r_run.status = "running"
    /\ r_run.taken = Len(r_run.waves)
    /\ r_run' = [r_run EXCEPT !.status = IF r_run.all_failed # <<>>
                                         THEN "exit30" ELSE "exit0"]
    /\ UNCHANGED waveVars

NextRun ==
    \/ \E wave \in WaveOptions, force \in ForceOptions, dry_run \in BOOLEAN,
          registry \in Registries, date \in Dates :
          RunMain(wave, force, dry_run, registry, date)
    \/ RunExecuteWave
    \/ RunExtend
    \/ RunFinish
    \/ \E u \in UnitIds : StartUnit(u)
    \/ \E u \in UnitIds : ExecutePromptDryRun(u)
    \/ \E u \in UnitIds, content \in ToolOutputs, retries \in 0..UnitMaxRetries :
          ExecutePromptReturns(u, content, retries)
    \/ \E u \in UnitIds, wrote \in BOOLEAN : ExecutePromptRaises(u, wrote)
    \/ \E u \in UnitIds : ExecutePromptDailyCap(u)
    \/ \E u \in UnitIds : WriteMarker(u)
    \/ \E u \in UnitIds : WriteMarkerRaises(u)
    \/ \E u \in UnitIds : WriteLedger(u)
    \/ \E u \in UnitIds : WriteLedgerRaises(u)
    \/ ReturnWave

(***************************************************************************)
(* RunnerService._get_max_workers on arbitrary waves                        *)
(***************************************************************************)

\* Largest number of units in the waves passed to _get_max_workers.
MaxWaveUnits == 4

ConcurrencyClasses == {"sequential", "low", "medium", "high"}

\* The lists of concurrency classes of up to MaxWaveUnits units.
ClassLists == UNION {[1..n -> ConcurrencyClasses] : n \in 0..MaxWaveUnits}

InitPool ==
    /\ pl_prompts = <<>>
    /\ pl_workers = [returned |-> FALSE, value |-> 0]

\* _get_max_workers(prompts) for a wave whose units have the given classes.
GetMaxWorkersCall(classes) ==
    /\ PoolFrame
    /\ pl_prompts' = [i \in DOMAIN classes |->
                         Policy("u", "search", <<"out">>, "md", classes[i], 0)]
    /\ pl_workers' = [returned |-> TRUE, value |-> GetMaxWorkers(pl_prompts')]

NextPool == \E classes \in ClassLists : GetMaxWorkersCall(classes)

(***************************************************************************)
(* TokenBucketRateLimiter (services/rate_limiter.py)                        *)
(*                                                                         *)
(* Time is counted in ticks of a clock that never goes back. The bucket    *)
(* gains one unit per tick and a token is TokenUnits units, so that the    *)
(* bucket can hold a fraction of a token.                                   *)
(***************************************************************************)

Threads == {"t1", "t2"}

\* Units of one token (the 1.0 of the code).
TokenUnits == 2

\* config.burst_size, in tokens.
burst_size == 1

\* config.requests_per_day
requests_per_day == 2

\* timedelta(days=1), in ticks.
DayTicks == 3

\* Last tick of the clock.
MaxClock == 4

\* min(wait_time, 1.0), in ticks.
SleepTicks == 1

\* The timeout arguments of the explored calls, in ticks.
Timeouts == {0, 2}

LimiterOps == {"acquire", "try_acquire", "get_stats", "wait_if_needed"}

\* self._minute_capacity, in units.
minute_capacity == burst_size * TokenUnits

NoThread ==
    [pc |-> "idle", op |-> None, start_time |-> 0, timeout |-> 0,
     wake |-> 0, slept |-> FALSE, res |-> "none"]

InitLimiter ==
    /\ tb_minute_tokens = minute_capacity
    /\ tb_minute_last_update = 0
    /\ tb_day_requests = 0
    /\ tb_day_reset_time = DayTicks
    /\ tb_lock = None
    /\ tb_time = 0
    /\ tb_thread = [t \in Threads |-> NoThread]
    /\ tb_grants = 0

\* _refill_tokens: the bucket after a refill at time `now`.
RefillTokens(tokens, last_update, now) ==
    Min(minute_capacity, tokens + (now - last_update))

\* Thread t leaves a method with `res`; its locals die. `slept` keeps
\* whether the call slept.
Returned(t, res) ==
    [tb_thread EXCEPT ![t] = [NoThread EXCEPT !.op = tb_thread[t].op,
                                              !.slept = tb_thread[t].slept,
                                              !.res = res]]

\* A thread calls acquire, try_acquire, get_stats or wait_if_needed
\* (start_time = time.time(), line 84).
LimiterCall(t, op, timeout) ==
    /\ LimiterFrame
    /\ tb_thread[t].pc = "idle"
    /\ tb_thread' = [tb_thread EXCEPT ![t] =
          [NoThread EXCEPT !.pc = "lock", !.op = op, !.start_time = tb_time,
                           !.timeout = IF op \in {"acquire", "wait_if_needed"}
                                       THEN timeout ELSE 0]]
    /\ UNCHANGED <<bucketVars, tb_lock, tb_time, tb_grants>>

\* A variant of `with self._lock` that does not wait for the holder.
LockAcquire_NoExclusion(t) ==
    /\ LimiterFrame
    /\ tb_thread[t].pc = "lock"
    /\ tb_lock' = t
    /\ tb_thread' = [tb_thread EXCEPT ![t].pc = "refill"]
    /\ UNCHANGED <<bucketVars, tb_time, tb_grants>>

\* `with self._lock` (lines 87, 118, 140): enter when no thread holds it.
LockAcquire(t) ==
    /\ LimiterFrame
    /\ tb_thread[t].pc = "lock"
    /\ tb_lock = None
    /\ tb_lock' = t
    /\ tb_thread' = [tb_thread EXCEPT ![t].pc = "refill"]
    /\ UNCHANGED <<bucketVars, tb_time, tb_grants>>

\* _refill_tokens() and _reset_daily_counter_if_needed().
Refill(t) ==
    /\ LimiterFrame
    /\ tb_thread[t].pc = "refill"
    /\ tb_minute_tokens' =
          RefillTokens(tb_minute_tokens, tb_minute_last_update, tb_time)
    /\ tb_minute_last_update' = tb_time
    /\ IF tb_time >= tb_day_reset_time
       THEN /\ tb_day_requests' = 0
            /\ tb_day_reset_time' = tb_time + DayTicks
            /\ tb_grants' = 0
       ELSE UNCHANGED <<tb_day_requests, tb_day_reset_time, tb_grants>>
    /\ tb_thread' = [tb_thread EXCEPT ![t].pc = "check"]
    /\ UNCHANGED <<tb_lock, tb_time>>

\* A variant in which acquire polls while the daily limit is reached.
Check_WaitsOutDailyCap(t) ==
    /\ LimiterFrame
    /\ tb_thread[t].pc = "check"
    /\ LET op == tb_thread[t].op
           unlock == IF tb_lock = t THEN None ELSE tb_lock
       IN  IF op = "get_stats"
           THEN /\ tb_thread' = Returned(t, "stats")
                /\ tb_lock' = unlock
           ELSE IF tb_day_requests < requests_per_day
                   /\ tb_minute_tokens >= TokenUnits
           THEN /\ tb_thread' = [tb_thread EXCEPT ![t].pc = "grant"]
                /\ tb_lock' = tb_lock
           ELSE /\ tb_thread' = IF op = "try_acquire"
                                THEN Returned(t, "false")
                                ELSE [tb_thread EXCEPT ![t].pc = "timeout"]
                /\ tb_lock' = unlock
    /\ UNCHANGED <<bucketVars, tb_time, tb_grants>>

\* The daily-limit and token checks (lines 92-99, 123-127) and get_stats'
\* return. A check that fails leaves the with-block.
Check(t) ==
    /\ LimiterFrame
    /\ tb_thread[t].pc = "check"
    /\ LET op == tb_thread[t].op
           unlock == IF tb_lock = t THEN None ELSE tb_lock
       IN  IF op = "get_stats"
           THEN /\ tb_thread' = Returned(t, "stats")
                /\ tb_lock' = unlock
           ELSE IF tb_day_requests >= requests_per_day
           THEN /\ tb_thread' = Returned(t, IF op = "try_acquire"
                                            THEN "false" ELSE "RateLimitError")
                /\ tb_lock' = unlock
           ELSE IF tb_minute_tokens >= TokenUnits
           THEN /\ tb_thread' = [tb_thread EXCEPT ![t].pc = "grant"]
                /\ tb_lock' = tb_lock
           ELSE /\ tb_thread' = IF op = "try_acquire"
                                THEN Returned(t, "false")
                                ELSE [tb_thread EXCEPT ![t].pc = "timeout"]
                /\ tb_lock' = unlock
    /\ UNCHANGED <<bucketVars, tb_time, tb_grants>>

\* self._minute_tokens -= 1.0; self._day_requests += 1; return True
Grant(t) ==
    /\ LimiterFrame
    /\ tb_thread[t].pc = "grant"
    /\ tb_minute_tokens' = tb_minute_tokens - TokenUnits
    /\ tb_day_requests' = tb_day_requests + 1
    /\ tb_grants' = tb_grants + 1
    /\ tb_lock' = IF tb_lock = t THEN None ELSE tb_lock
    /\ tb_thread' = Returned(t, "true")
    /\ UNCHANGED <<tb_minute_last_update, tb_day_reset_time, tb_time>>

\* The timeout check of acquire (lines 105-106), outside the lock, and the
\* raise of wait_if_needed (lines 162-165) when acquire returned False.
CheckTimeout(t) ==
    /\ LimiterFrame
    /\ tb_thread[t].pc = "timeout"
    /\ tb_thread' =
          IF tb_time - tb_thread[t].start_time >= tb_thread[t].timeout
          THEN Returned(t, IF tb_thread[t].op = "wait_if_needed"
                           THEN "RateLimitError" ELSE "false")
          ELSE [tb_thread EXCEPT ![t].pc = "sleep", ![t].slept = TRUE,
                                 ![t].wake = tb_time + SleepTicks]
    /\ UNCHANGED <<bucketVars, tb_lock, tb_time, tb_grants>>

\* time.sleep(min(wait_time, 1.0)) ends and the loop starts over.
Wake(t) ==
    /\ LimiterFrame
    /\ tb_thread[t].pc = "sleep"
    /\ tb_time >= tb_thread[t].wake
    /\ tb_thread' = [tb_thread EXCEPT ![t].pc = "lock", ![t].wake = 0]
    /\ UNCHANGED <<bucketVars, tb_lock, tb_time, tb_grants>>

\* The clock advances.
LimiterTick ==
    /\ LimiterFrame
    /\ tb_time < MaxClock
    /\ tb_time' = tb_time + 1
    /\ UNCHANGED <<bucketVars, tb_lock, tb_thread, tb_grants>>

NextLimiter ==
    \/ \E t \in Threads, op \in LimiterOps, timeout \in Timeouts :
          LimiterCall(t, op, timeout)
    \/ \E t \in Threads : LockAcquire(t)
    \/ \E t \in Threads : Refill(t)
    \/ \E t \in Threads : Check(t)
    \/ \E t \in Threads : Grant(t)
    \/ \E t \in Threads : CheckTimeout(t)
    \/ \E t \in Threads : Wake(t)
    \/ LimiterTick

(***************************************************************************)
(* LedgerService.write_ledger_entry / read_ledger_entries                  *)
(* (services/ledger.py, adapters/filesystem.py append_jsonl, read_jsonl)   *)
(***************************************************************************)

\* Entries written to one date's ledger.
MaxLedgerEntries == 2

LedgerDates == {"2025-11-14", "2025-11-15"}

\* Clock values of started_at and ended_at.
LedgerStart == 1
LedgerEnd == 3

\* An Optional value: None, or a value.
Nothing == <<>>
Some(x) == <<x>>

\* The arguments of write_ledger_entry that vary in the model: the calls for
\* unit s1 pass no dependent_inputs, the calls for s2 pass a list.
LedgerArgs ==
    {[prompt_id |-> id, ended_at |-> ended_at,
      dependent_inputs |-> IF id = "s1" THEN Nothing ELSE Some(<<"a.md">>)] :
        id \in {"s1", "s2"}, ended_at \in {Nothing, Some(LedgerEnd)}}

\* The pieces of the file's text: a line break, or a JSON document.
Newline == [text |-> "\n"]

\* LedgerEntry(...) as write_ledger_entry builds it (lines 62-81): the
\* duration is computed when ended_at is given, a missing dependency list
\* becomes the empty list.
MakeLedgerEntry(args) ==
    [prompt_id |-> args.prompt_id,
     started_at |-> [datetime |-> LedgerStart],
     ended_at |-> IF args.ended_at = Nothing THEN Nothing
                  ELSE Some([datetime |-> args.ended_at[1]]),
     duration_seconds |-> IF args.ended_at = Nothing THEN Nothing
                          ELSE Some(args.ended_at[1] - LedgerStart),
     success |-> args.ended_at # Nothing,
     dependent_inputs |-> IF args.dependent_inputs = Nothing THEN <<>>
                          ELSE args.dependent_inputs[1]]

\* json.dumps(entry.model_dump(), default=str): one JSON document without a
\* line break, in which a datetime has become its str().
JsonDumps(entry) ==
    [json |-> [entry EXCEPT
        !.started_at = [str |-> entry.started_at.datetime],
        !.ended_at = IF entry.ended_at = Nothing THEN Nothing
                     ELSE Some([str |-> entry.ended_at[1].datetime])]]

\* LedgerEntry(**json.loads(line)): the timestamps are parsed back.
ParseLedgerEntry(line) ==
    [line.json EXCEPT
        !.started_at = [datetime |-> line.json.started_at.str],
        !.ended_at = IF line.json.ended_at = Nothing THEN Nothing
                     ELSE Some([datetime |-> line.json.ended_at[1].str])]

\* A variant of append_jsonl that opens the file for writing.
AppendJsonl_Truncate(content, data) == <<JsonDumps(data), Newline>>

\* append_jsonl: open(path, "a") and write the document and a line break.
AppendJsonl(content, data) == content \o <<JsonDumps(data), Newline>>

\* read_jsonl: the documents of the lines of the file that are not blank, in
\* file order.
RECURSIVE ReadJsonl(_)
ReadJsonl(content) ==
    IF content = <<>> THEN <<>>
    ELSE IF Head(content) = Newline THEN ReadJsonl(Tail(content))
    ELSE <<Head(content)>> \o ReadJsonl(Tail(content))

InitLedger ==
    /\ ld_file = [d \in LedgerDates |-> <<>>]
    /\ ld_written = [d \in LedgerDates |-> <<>>]
    /\ ld_seen = [d \in LedgerDates |-> <<>>]

\* LedgerService.write_ledger_entry
WriteLedgerEntry(date, args) ==
    /\ LedgerFrame
    /\ Len(ld_written[date]) < MaxLedgerEntries
    /\ LET entry == MakeLedgerEntry(args)
       IN  /\ ld_file' = [ld_file EXCEPT ![date] = AppendJsonl(@, entry)]
           /\ ld_written' = [ld_written EXCEPT ![date] = Append(@, entry)]
    /\ UNCHANGED ld_seen

\* LedgerService.read_ledger_entries
ReadLedgerEntries(date) ==
    /\ LedgerFrame
    /\ LET entries == ReadJsonl(ld_file[date])
       IN  ld_seen' = [ld_seen EXCEPT ![date] =
                          [i \in DOMAIN entries |-> ParseLedgerEntry(entries[i])]]
    /\ UNCHANGED <<ld_file, ld_written>>

NextLedger ==
    \/ \E date \in LedgerDates, args \in LedgerArgs : WriteLedgerEntry(date, args)
    \/ \E date \in LedgerDates : ReadLedgerEntries(date)

(***************************************************************************)
(* RunnerService._get_output_path on arbitrary units                       *)
(***************************************************************************)

PathDates == {"2025-11-14", "2025-11-15", "2025-12-01"}

\* expected_outputs patterns: without a placeholder, with one after a
\* prefix, and the placeholder alone.
PathStems == {<<"notes">>, <<"report_", "{date}">>, <<"{date}">>}

PathExts == {"md", "json"}

NoPath == [dir |-> <<>>, stem |-> <<>>, ext |-> ""]

\* The units passed to _get_output_path: a wave and a pattern.
PathPrompts ==
    [wave : WaveTypes, expected_outputs : [stem : PathStems, ext : PathExts]]

InitPaths ==
    /\ op_in = [prompt |-> [wave |-> None,
                            expected_outputs |-> [stem |-> <<>>, ext |-> ""]],
                date |-> None]
    /\ op_out = [resolved |-> FALSE, path |-> NoPath]

\* self._get_output_path(prompt, date)
GetOutputPathCall(prompt, date) ==
    /\ PathsFrame
    /\ op_in' = [prompt |-> prompt, date |-> date]
    /\ op_out' = [resolved |-> TRUE, path |-> GetOutputPath(prompt, date)]

NextPaths ==
    \E prompt \in PathPrompts, date \in PathDates : GetOutputPathCall(prompt, date)

(***************************************************************************)
(* TSVRegistryProvider.validate (services/registry.py)                     *)
(***************************************************************************)

\* Largest number of units in the registries validated.
MaxRegistryUnits == 2

\* Temperatures, in tenths: below, at and above the limit 1.0 for units with
\* tools.
Temperatures == {7, 10, 15}

\* The units of the loaded registries: an id, a wave, whether `tools` is set
\* and a temperature.
RegistryUnits ==
    [prompt_id : {"a", "b"}, wave : {"search", "aggregator", "render"},
     tools : BOOLEAN, temperature : Temperatures]

LoadedRegistries == UNION {[1..n -> RegistryUnits] : n \in 0..MaxRegistryUnits}

\* The orders in which the elements of a set can be iterated.
Orders(S) ==
    {order \in [1..Cardinality(S) -> S] :
        \A i, j \in DOMAIN order : i # j => order[i] # order[j]}

\* The errors appended for the units of one wave (lines 138-143), in
\* registry order.
ToolErrors(prompts, wave) ==
    LET offending == SelectSeq(prompts, LAMBDA p :
                        p.wave = wave /\ p.tools /\ p.temperature > 10)
    IN  [i \in DOMAIN offending |->
            [kind |-> "tools_temperature", about |-> {offending[i].prompt_id}]]

\* The errors of the loop over waves_present, which is a set: the waves are
\* visited in the order `order`.
RECURSIVE WaveErrors(_, _)
WaveErrors(prompts, order) ==
    IF order = <<>> THEN <<>>
    ELSE ToolErrors(prompts, Head(order)) \o WaveErrors(prompts, Tail(order))

\* validate on a loaded registry (lines 115-155): an empty registry returns
\* at once; otherwise the duplicate ids, the tool-enabled units with a
\* temperature above 1.0 and the missing critical waves are collected.
Validate(prompts, order) ==
    LET prompt_ids == [i \in DOMAIN prompts |-> prompts[i].prompt_id]
        duplicates == {prompt_ids[i] : i \in {k \in DOMAIN prompt_ids :
                          \E j \in DOMAIN prompt_ids : j # k /\ prompt_ids[j] = prompt_ids[k]}}
        waves_present == {prompts[i].wave : i \in DOMAIN prompts}
        errors ==
            (IF duplicates # {}
             THEN <<[kind |-> "duplicate", about |-> duplicates]>> ELSE <<>>)
            \o WaveErrors(prompts, order)
            \o (IF "search" \notin waves_present
                THEN <<[kind |-> "missing_search", about |-> {}]>> ELSE <<>>)
            \o (IF "aggregator" \notin waves_present
                THEN <<[kind |-> "missing_aggregator", about |-> {}]>> ELSE <<>>)
    IN  IF prompts = <<>>
        THEN [ok |-> FALSE, errors |-> <<[kind |-> "empty", about |-> {}]>>]
        ELSE [ok |-> errors = <<>>, errors |-> errors]

InitRegistry ==
    /\ rv_prompts = <<>>
    /\ rv_result = [returned |-> FALSE, ok |-> FALSE, errors |-> <<>>]

\* provider.validate() with the registry loaded.
ValidateCall(prompts, order) ==
    /\ RegistryFrame
    /\ ~rv_result.returned
    /\ rv_prompts' = prompts
    /\ LET res == Validate(prompts, order)
       IN  rv_result' = [returned |-> TRUE, ok |-> res.ok, errors |-> res.errors]

NextRegistry ==
    \E prompts \in LoadedRegistries :
        \E order \in Orders({prompts[i].wave : i \in DOMAIN prompts}) :
            ValidateCall(prompts, order)

(***************************************************************************)
(* SQLiteRegistryProvider.save and migrate_tsv_to_sqlite                   *)
(* (services/sqlite_registry.py), TSVRegistryProvider.load                 *)
(* (services/registry.py)                                                  *)
(***************************************************************************)

\* Largest number of rows of a source.
MaxSourceRows == 2

\* The fields PromptPolicy requires (Field(...) without a default), of the
\* fields modelled.
RequiredFields == {"prompt_id", "wave", "prompt"}

\* The data rows of a TSV file: every column is present.
TsvRows == [prompt_id : {"u1", "u2"}, wave : {"search", "aggregator"}, prompt : {"text"}]

TsvFiles == UNION {[1..n -> TsvRows] : n \in 0..MaxSourceRows}

\* PromptPolicy(**kwargs): a missing required field is a ValidationError,
\* which is a ValueError.
NewPromptPolicy(kwargs) ==
    IF RequiredFields \subseteq DOMAIN kwargs
    THEN [error |-> None, policy |-> kwargs]
    ELSE [error |-> "Field required", policy |-> kwargs]

\* The keyword arguments load passes for one row (registry.py:78-92):
\* `prompt` is not among them.
TsvKwargs(row) == [prompt_id |-> row.prompt_id, wave |-> row.wave]

\* TSVRegistryProvider.load: the first row whose policy cannot be built
\* raises ValueError("Error parsing TSV row ...").
TsvLoad(rows) ==
    LET built == [i \in DOMAIN rows |-> NewPromptPolicy(TsvKwargs(rows[i]))]
    IN  IF \E i \in DOMAIN built : built[i].error # None
        THEN [error |-> "Error parsing TSV row", prompts |-> <<>>]
        ELSE [error |-> None, prompts |-> [i \in DOMAIN built |-> built[i].policy]]

\* The policies save is called with by other callers.
Policies == [prompt_id : {"u1", "u2"}, wave : {"search", "aggregator"}, prompt : {"text"}]

PolicyLists == UNION {[1..n -> Policies] : n \in 0..MaxSourceRows}

\* SQLiteRegistryProvider.save (lines 135-182): duplicates raise ValueError
\* before the connection is opened; otherwise the table is cleared and one
\* row per policy is inserted, in one transaction.
Save(table, prompts) ==
    LET prompt_ids == [i \in DOMAIN prompts |-> prompts[i].prompt_id]
    IN  IF Len(prompt_ids) # Cardinality({prompt_ids[i] : i \in DOMAIN prompt_ids})
        THEN [error |-> "Duplicate prompt IDs", table |-> table]
        ELSE [error |-> None, table |-> {prompts[i] : i \in DOMAIN prompts}]

NoMigration == [op |-> "none", source |-> <<>>, before |-> {}, error |-> None]

InitMigration ==
    /\ mg_table = {}
    /\ mg_call = NoMigration

\* provider.save(prompts) on the destination.
SaveCall(prompts) ==
    /\ MigrationFrame
    /\ LET res == Save(mg_table, prompts)
       IN  /\ mg_table' = res.table
           /\ mg_call' = [op |-> "save", source |-> prompts, before |-> mg_table,
                          error |-> res.error]

\* migrate_tsv_to_sqlite(tsv_path, sqlite_path) (lines 284-307): load, then
\* save; an error of load leaves before the destination is opened.
MigrateTsvToSqlite(rows) ==
    /\ MigrationFrame
    /\ LET loaded == TsvLoad(rows)
           res == IF loaded.error # None
                  THEN [error |-> loaded.error, table |-> mg_table]
                  ELSE Save(mg_table, loaded.prompts)
       IN  /\ mg_table' = res.table
           /\ mg_call' = [op |-> "migrate", source |-> rows, before |-> mg_table,
                          error |-> res.error]

NextMigration ==
    \/ \E prompts \in PolicyLists : SaveCall(prompts)
    \/ \E rows \in TsvFiles : MigrateTsvToSqlite(rows)

(***************************************************************************)
(* execute_wave under a process-level kill                                 *)
(***************************************************************************)

\* The process is killed while execute_wave runs: every worker stops where
\* it is. A worker inside execute_prompt may have been writing the tool's
\* stdout (gemini_cli.py:201-203) and leaves a partial output file; a worker
\* inside write_json (filesystem.py:213-214) leaves a partial marker.
Kill(torn) ==
    /\ WaveFrame
    /\ w_call.status = "running"
    /\ torn \subseteq {u \in UnitIds : w_unit[u].pc \in {"invoke", "marker"}}
    /\ w_file' = [x \in OutputPaths |->
                     IF \E u \in torn : w_unit[u].pc = "invoke" /\ UnitPath(u) = x
                     THEN "partial" ELSE w_file[x]]
    /\ w_marker' = [x \in MarkerPaths |->
                       IF \E u \in torn : w_unit[u].pc = "marker"
                                          /\ MarkerPath(UnitPath(u)) = x
                       THEN UnreadableMarker ELSE w_marker[x]]
    /\ w_call' = [w_call EXCEPT !.status = "killed"]
    /\ UNCHANGED <<w_ledger, w_unit, w_completed, w_failed, w_prev>>

\* Unforced real calls of execute_wave for the registry with distinct
\* stems, any of which may be killed.
NextCrash ==
    \/ \E wave \in {"search", "aggregator"}, date \in Dates :
          ExecuteWave(wave, "distinct", date, {}, {}, FALSE)
    \/ \E u \in UnitIds : StartUnit(u)
    \/ \E u \in UnitIds, content \in ToolOutputs, retries \in 0..UnitMaxRetries :
          ExecutePromptReturns(u, content, retries)
    \/ \E u \in UnitIds, wrote \in BOOLEAN : ExecutePromptRaises(u, wrote)
    \/ \E u \in UnitIds : WriteMarker(u)
    \/ \E u \in UnitIds : WriteLedger(u)
    \/ ReturnWave
    \/ \E torn \in SUBSET UnitIds : Kill(torn)

(***************************************************************************)
(* _execute_single_prompt for one unit on two dates (services/runner.py)   *)
(***************************************************************************)

\* The units run: one identifier, every wave and pattern.
DatedPrompts ==
    [prompt_id : {"u1"}, wave : WaveTypes,
     expected_outputs : [stem : PathStems, ext : PathExts]]

NoDatedRun ==
    [done |-> FALSE,
     prompt |-> [prompt_id |-> None, wave |-> None,
                 expected_outputs |-> [stem |-> <<>>, ext |-> ""]],
     date |-> None, path |-> NoPath, marker |-> NoMarker]

InitDated ==
    /\ dk_run = NoDatedRun
    /\ dk_check = [done |-> FALSE, date |-> None, skipped |-> FALSE]

\* A real, successful _execute_single_prompt for `date` (lines 156-239): the
\* tool writes the output file and the marker is written beside it.
RunForDate(prompt, date) ==
    /\ DatedFrame
    /\ ~dk_run.done
    /\ dk_run' = [done |-> TRUE, prompt |-> prompt, date |-> date,
                  path |-> GetOutputPath(prompt, date),
                  marker |-> MakeMarker("report", prompt.prompt_id, 0, 0, None)]
    /\ UNCHANGED dk_check

\* The completion check of an unforced run of the same unit for `date`
\* (lines 156-174), on the files the first run left.
CheckForDate(date) ==
    /\ DatedFrame
    /\ dk_run.done
    /\ LET output_path == GetOutputPath(dk_run.prompt, date)
           file == IF output_path = dk_run.path THEN "report" ELSE Absent
           marker == IF MarkerPath(output_path) = MarkerPath(dk_run.path)
                     THEN dk_run.marker ELSE NoMarker
       IN  dk_check' = [done |-> TRUE, date |-> date,
                        skipped |-> IsCompleted(file, marker, FALSE, {}, {},
                                                dk_run.prompt)]
    /\ UNCHANGED dk_run

NextDated ==
    \/ \E prompt \in DatedPrompts, date \in PathDates : RunForDate(prompt, date)
    \/ \E date \in PathDates : CheckForDate(date)

(***************************************************************************)
(* ManifestService.build_dependency_graph on registries of the later waves *)
(* (services/manifest.py)                                                  *)
(***************************************************************************)

\* expected_outputs patterns of the units: the names the later waves are
\* given by default, and one other dated name.
LineageStems ==
    {<<"daily_report_", "{date}">>, <<"tags_", "{date}">>, <<"{date}">>,
     <<"summary_", "{date}">>}

LineageDates == {"2025-11-14", "2025-11-15"}

\* Registries of a producing unit u1 and a consuming unit u2.
LineageRegistries ==
    {<<[prompt_id |-> "u1", wave |-> w1, expected_outputs |-> e1],
       [prompt_id |-> "u2", wave |-> w2, expected_outputs |-> e2]>> :
        w1 \in {"aggregator", "tagger", "export"},
        w2 \in {"tagger", "render", "export", "publish"},
        e1 \in [stem : LineageStems, ext : PathExts],
        e2 \in [stem : {<<"out_", "{date}">>}, ext : {"json"}]}

InitLineage ==
    /\ dg_in = [prompts |-> <<>>, date |-> None]
    /\ dg_out = [returned |-> FALSE, deps |-> [u \in {"u1", "u2"} |-> <<>>]]

\* manifest_service.build_dependency_graph(prompts, date)
BuildDependencyGraphCall(prompts, date) ==
    /\ LineageFrame
    /\ dg_in' = [prompts |-> prompts, date |-> date]
    /\ dg_out' = [returned |-> TRUE,
                  deps |-> [u \in {"u1", "u2"} |->
                               BuildDependencyGraph(prompts, date, u)]]

NextLineage ==
    \E prompts \in LineageRegistries, date \in LineageDates :
        BuildDependencyGraphCall(prompts, date)

(***************************************************************************)
(* Termination of execute_prompt and of execute_wave                       *)
(***************************************************************************)

\* The adapter has not been called.
AdapterUntouched == a_pc = "idle" /\ a_result = NoResult

\* Largest max_retries of the policies the termination runs use.
TerminationRetries == 2

\* Either execute_prompt is exercised alone, with one unit, one successful
\* output and the two kinds of error output, or execute_wave is, unforced,
\* on the registry with distinct stems.
NextTermination ==
    \/ /\ w_call.n = 0
       /\ \/ \E n \in 0..TerminationRetries, d \in BOOLEAN, rl \in BOOLEAN :
                ExecutePromptCall([prompt_id |-> "search_1", max_retries |-> n], d, rl)
          \/ LimiterGranted
          \/ \E reason \in {"daily", "timeout"} : LimiterRaised(reason)
          \/ InvokeSucceeds("report")
          \/ \E err \in {"", "HTTP 429 Too Many Requests"} : InvokeFails("", err)
          \/ InvokeTimesOut
          \/ InvokeRaises
          \/ AdapterDone
    \/ /\ AdapterUntouched
       /\ \/ \E wave \in {"search", "aggregator"}, date \in Dates, dry_run \in BOOLEAN :
                ExecuteWave(wave, "distinct", date, {}, {}, dry_run)
          \/ \E u \in UnitIds : StartUnit(u)
          \/ \E u \in UnitIds : ExecutePromptDryRun(u)
          \/ \E u \in UnitIds, retries \in 0..UnitMaxRetries :
                ExecutePromptReturns(u, "report", retries)
          \/ \E u \in UnitIds, wrote \in BOOLEAN : ExecutePromptRaises(u, wrote)
          \/ \E u \in UnitIds : WriteMarker(u)
          \/ \E u \in UnitIds : WriteMarkerRaises(u)
          \/ \E u \in UnitIds : WriteLedger(u)
          \/ \E u \in UnitIds : WriteLedgerRaises(u)
          \/ ReturnWave

Init ==
    /\ InitAdapter /\ InitManifest /\ InitLock /\ InitWave /\ InitRun /\ InitPool
    /\ InitLimiter /\ InitLedger /\ InitPaths /\ InitRegistry /\ InitMigration /\ InitDated /\ InitLineage

SpecAdapter == Init /\ [][NextAdapter]_vars

SpecManifest == Init /\ [][NextManifest]_vars

SpecLock == Init /\ [][NextLock]_vars

SpecWave == Init /\ [][NextWave]_vars

SpecRun == Init /\ [][NextRun]_vars

SpecPool == Init /\ [][NextPool]_vars

SpecLimiter == Init /\ [][NextLimiter]_vars

\* Every subprocess call and every limiter wait comes back, and the pool
\* keeps scheduling its workers: a step that stays possible is taken.
SpecTermination == Init /\ [][NextTermination]_vars /\ WF_vars(NextTermination)

SpecLineage == Init /\ [][NextLineage]_vars

SpecDated == Init /\ [][NextDated]_vars

SpecCrash == Init /\ [][NextCrash]_vars

SpecMigration == Init /\ [][NextMigration]_vars

SpecRegistry == Init /\ [][NextRegistry]_vars

SpecPaths == Init /\ [][NextPaths]_vars

SpecLedger == Init /\ [][NextLedger]_vars

(***************************************************************************)
(* Properties of FileLock                                                  *)
(***************************************************************************)

\* The processes whose acquire returned and who have not released, and whose
\* lock is younger than every process's TTL, so that no acquirer may take it
\* for stale.
FreshHolders ==
    {p \in Procs : lk_pc[p] = "held" /\ lk_now - lk_t0[p] < ShortTTL}

\* C2 (single-run mutual exclusion): as long as no acquire was forced (and
\* release was only called by holders), at most one process holds the lock at
\* any time. Stated for holders within their TTL, so that the takeover of an
\* expired lock, which is by design, does not count against it.
C2_MutualExclusion ==
    (~lk_forced /\ ~lk_stray) => Cardinality(FreshHolders) <= 1

(***************************************************************************)
(* Properties of the completion store                                      *)
(***************************************************************************)

\* C7 (completion decision): every is_completed call returns false when the
\* force flag is set, or the unit's id is a forced unit, or its wave is a
\* forced wave; otherwise false when there is no readable marker, when the
\* output file is absent, when the marker's exit code is not 0, or when the
\* marker stores a hash that differs from the file's; and true otherwise.
C7_CompletionDecision ==
    m_check.kind = "check" =>
        m_check.result =
            (/\ ~m_check.force
             /\ m_check.policy.prompt_id \notin m_check.forced_prompts
             /\ m_check.policy.wave \notin m_check.forced_waves
             /\ m_marker.kind = "marker"
             /\ m_file # Absent
             /\ m_marker.exit_code = 0
             /\ (m_marker.sha256 = None \/ m_marker.sha256 = Hash(m_file)))

\* An unforced check that returned true, on a marker without a stored hash.
C7_Witness ==
    /\ m_check.kind = "check"
    /\ m_check.result
    /\ m_marker.kind = "marker"
    /\ m_marker.sha256 = None

Unforced(check) ==
    /\ ~check.force
    /\ check.policy.prompt_id \notin check.forced_prompts
    /\ check.policy.wave \notin check.forced_waves

\* C8 (hash-based staleness detection): once write_completion_marker has
\* recorded exit code 0 for an existing output file, an unforced is_completed
\* returns true while the file has the content it had then, and false when
\* the file has since been truncated, modified or deleted.
C8_StalenessDetected ==
    (/\ m_check.kind = "check"
     /\ Unforced(m_check)
     /\ m_obs.written
     /\ m_obs.exit_code = 0
     /\ m_obs.file # Absent) =>
        (m_check.result <=> m_file = m_obs.file)

\* A check that returned false after the marked output was truncated.
C8_Witness ==
    /\ m_check.kind = "check"
    /\ Unforced(m_check)
    /\ m_obs.written
    /\ m_obs.exit_code = 0
    /\ m_obs.file = "report"
    /\ m_file = ""
    /\ ~m_check.result

(***************************************************************************)
(* Properties of execute_prompt                                            *)
(***************************************************************************)

\* C4 (retry exhaustion): when execute_prompt raises after every invocation
\* failed (the limiter, if any, granted every attempt), exactly
\* max_retries + 1 subprocess invocations were made, never more at any time,
\* and the GeminiCLIError names the unit id, the attempt count max_retries + 1
\* and the error the last attempt showed.
C4_RetryExhaustion ==
    /\ a_invocations <= a_policy.max_retries + 1
    /\ (a_pc = "raised" /\ ~a_obs.limiterErr) =>
          /\ a_invocations = a_policy.max_retries + 1
          /\ a_result.kind = "GeminiCLIError"
          /\ a_result.prompt_id = a_policy.prompt_id
          /\ a_result.attempts = a_policy.max_retries + 1
          /\ a_result.last_error.text = a_obs.lastSeen

C4_Witness ==
    /\ a_pc = "raised"
    /\ ~a_obs.limiterErr
    /\ a_policy.max_retries = 3
    /\ a_invocations = 4
    /\ a_result.attempts = 4

\* The expected sleeps after k failed attempts: min(2^i, 60) for i = 0..k-1.
StandardSleeps(k) == [i \in 1..k |-> Min(2 ^ (i - 1), 60)]

\* C5 (retry/backoff contract): when execute_prompt returns success after k
\* invocations failed with errors that are not rate-limit errors, retries = k,
\* k <= max_retries, and exactly k sleeps were made, of min(2^i, 60) seconds
\* for i = 0..k-1 in that order, none of them after the successful attempt.
C5_RetryBackoff ==
    (/\ a_pc = "returned"
     /\ a_invocations >= 1
     /\ ~a_obs.rateLimited
     /\ ~a_obs.limiterErr) =>
        LET k == a_invocations - 1
        IN  /\ a_result.kind = "return"
            /\ a_result.exit_code = 0
            /\ a_result.retries = k
            /\ k <= a_policy.max_retries
            /\ a_sleeps = StandardSleeps(k)

C5_Witness ==
    /\ a_pc = "returned"
    /\ ~a_obs.rateLimited
    /\ ~a_obs.limiterErr
    /\ a_result.retries = 7
    /\ a_sleeps = <<1, 2, 4, 8, 16, 32, 60>>

\* C6 (daily cap is not retryable): once the limiter has reported the daily
\* cap, execute_prompt has raised without any further sleep, limiter call or
\* subprocess invocation.
C6_DailyCapAborts ==
    a_obs.capSeen =>
        /\ a_pc \in {"raised", "idle"}
        /\ Len(a_sleeps) = a_obs.capSleeps
        /\ a_limiterCalls = a_obs.capCalls
        /\ a_invocations = a_obs.capInvocations

(***************************************************************************)
(* Properties of execute_wave                                               *)
(***************************************************************************)

\* The units of the current call's wave.
WaveUnits == RangeOf(WaveIds)

\* The units for which the current call ran the external tool.
Invoked == {u \in UnitIds : w_unit[u].inv > 0}

\* Number of times id occurs in a list.
Occurrences(list, id) == Cardinality({i \in DOMAIN list : list[i] = id})

\* The call is unforced: no forced units and no forced waves.
UnforcedCall == w_call.forced_prompts = {} /\ w_call.forced_waves = {}

\* C1 (idempotence): when execute_wave returns from the second of two
\* successive unforced calls for the same date, wave and unit set (same
\* dry_run flag, the first call having reported no failed unit, no worker
\* of the second hit by an unexpected exception), it has run the external
\* tool for no unit and its completed set is the first call's.
C1_Idempotence ==
    ( /\ w_call.status = "returned"
      /\ w_prev.status = "returned"
      /\ w_prev.wave = w_call.wave
      /\ ~w_prev.forced /\ UnforcedCall
      /\ w_prev.dry_run = w_call.dry_run
      /\ w_prev.failed = {}
      /\ \A u \in UnitIds : ~w_unit[u].raised )
    => ( /\ Invoked = {}
         /\ RangeOf(w_completed) = w_prev.completed )

C9_ForceOverride ==
    (w_call.status = "returned" /\ w_call.valid /\ ~w_call.dry_run) =>
        /\ w_call.forced_waves = {} => Invoked = w_call.forced_prompts \cap WaveUnits
        /\ w_call.wave \in w_call.forced_waves => Invoked = WaveUnits

\* C10 (unconditional bookkeeping): when the call returns, every unit that
\* was not skipped and whose worker ended in success or in GeminiCLIError has
\* a completion marker written and exactly one ledger entry of this call,
\* whose success flag is the outcome and whose dependent_inputs is the unit's
\* dependency list.
C10_Bookkeeping ==
    w_call.status = "returned" =>
        \A u \in WaveUnits :
            (~w_unit[u].skipped /\ ~w_unit[u].raised) =>
                /\ w_unit[u].marker_written
                /\ Cardinality({i \in DOMAIN w_ledger : w_ledger[i].prompt_id = u}) = 1
                /\ \A i \in DOMAIN w_ledger :
                      w_ledger[i].prompt_id = u =>
                          /\ w_ledger[i].success = (w_unit[u].result = "true")
                          /\ w_ledger[i].dependent_inputs =
                                BuildDependencyGraph(Prompts, w_call.date, u)

(***************************************************************************)
(* Properties of the wave loop                                              *)
(***************************************************************************)

\* Position of a wave in the pipeline order.
WaveRank(wave) == CHOOSE i \in DOMAIN DefaultWaves : DefaultWaves[i] = wave

\* The units inside _execute_single_prompt or waiting in the pool's queue.
Unresolved == {u \in UnitIds : w_unit[u].pc \notin {"out", "done"}}

\* C11 (strict wave sequencing): in a pipeline invocation execute_wave is
\* entered only when no unit of the wave before is queued or at any step of
\* its processing, every unit in flight belongs to the wave being executed,
\* and each wave entered after the first is the next one in the fixed order.
C11_WaveSequencing ==
    /\ [](\A u \in Unresolved : PolicyOf(Prompts, u).wave = w_call.wave)
    /\ [][w_call'.n # w_call.n =>
            /\ Unresolved = {}
            /\ w_call.n > 0 => WaveRank(w_call'.wave) = WaveRank(w_call.wave) + 1]_vars

\* The aggregator wave is at work after a search wave that ran its units.
C11_Witness ==
    /\ r_run.status = "running"
    /\ w_call.wave = "aggregator"
    /\ w_unit["g1"].pc = "marker"
    /\ w_unit["g1"].inv > 0
    /\ w_prev.wave = "search"
    /\ w_prev.completed = {"s1", "s2"}

(***************************************************************************)
(* Properties of the pool size                                              *)
(***************************************************************************)

\* The class sizes low = 2, medium = 4, high = 8.
ClassSize(concurrency_class) ==
    CASE concurrency_class = "low" -> 2
      [] concurrency_class = "medium" -> 4
      [] concurrency_class = "high" -> 8

\* C12 (pool sizing): for a wave with at least one unit, _get_max_workers
\* returns 1 when some unit is sequential, and otherwise the smallest of the
\* class sizes of the wave's units.
C12_PoolSizing ==
    (pl_workers.returned /\ pl_prompts # <<>>) =>
        IF \E p \in RangeOf(pl_prompts) : p.concurrency_class = "sequential"
        THEN pl_workers.value = 1
        ELSE /\ \E p \in RangeOf(pl_prompts) :
                    pl_workers.value = ClassSize(p.concurrency_class)
             /\ \A p \in RangeOf(pl_prompts) :
                    pl_workers.value <= ClassSize(p.concurrency_class)

\* A wave of one low and one medium unit got pool size 2.
C12_Witness ==
    /\ Len(pl_prompts) = 2
    /\ pl_prompts[1].concurrency_class = "low"
    /\ pl_prompts[2].concurrency_class = "medium"
    /\ pl_workers.returned
    /\ pl_workers.value = 2

(***************************************************************************)
(* Properties of the worker pool of a wave                                  *)
(***************************************************************************)

\* Policies of the units of the current call's wave.
WavePolicies == {p \in RangeOf(Prompts) : p.wave = w_call.wave}

\* Units of the wave that started and have not resolved.
InFlight == {u \in UnitIds : w_unit[u].pc \notin {"out", "pending", "done"}}

\* C13 (bounded concurrency): the units of the wave in flight are never more
\* than the pool size: at most one when some unit of the wave is sequential,
\* and otherwise at most the class size of every unit of the wave.
C13_BoundedConcurrency ==
    /\ \A u \in InFlight : UnitPolicy(u) \in WavePolicies
    /\ IF \E p \in WavePolicies : p.concurrency_class = "sequential"
       THEN Cardinality(InFlight) <= 1
       ELSE \A p \in WavePolicies :
               Cardinality(InFlight) <= ClassSize(p.concurrency_class)

\* In a search wave with a sequential unit, s1 is in flight and s2 waits
\* for the only worker.
C13_Witness ==
    /\ w_call.status = "running" /\ w_call.wave = "search"
    /\ w_call.registry = "same_stem"
    /\ w_unit["s1"].pc = "invoke"
    /\ w_unit["s2"].pc = "pending"

\* C14 (outcome partition): when execute_wave has returned, every unit it
\* dispatched has resolved, every unit of the wave occurs exactly once in
\* exactly one of the completed and failed lists, and no unit of another
\* wave occurs in either.
C14_OutcomePartition ==
    w_call.status = "returned" =>
        /\ InFlight = {}
        /\ \A u \in UnitIds : w_unit[u].pc # "pending"
        /\ \A u \in UnitIds :
              Occurrences(w_completed, u) + Occurrences(w_failed, u) =
                 IF UnitPolicy(u) \in WavePolicies THEN 1 ELSE 0

\* A search wave returned with one unit completed and the other failed.
C14_Witness ==
    /\ w_call.status = "returned" /\ w_call.wave = "search"
    /\ w_completed = <<"s2">>
    /\ w_failed = <<"s1">>

(***************************************************************************)
(* Properties of the rate limiter                                           *)
(***************************************************************************)

\* Threads inside a with-block of the limiter.
InCritical == {t \in Threads : tb_thread[t].pc \in {"refill", "check", "grant"}}

\* Thread t is granted a token in this step.
Granted(t) == tb_thread[t].pc # "idle" /\ tb_thread'[t].res = "true"

\* C15 (rate limiter thread safety): whatever the interleaving of acquire,
\* try_acquire, get_stats and wait_if_needed callers, a thread reads or
\* writes the bucket only while it holds the mutex; the available tokens stay
\* between 0 and the burst capacity; every grant removes exactly one token
\* and adds exactly one to the daily count; and the grants of one daily
\* window are never more than requests_per_day.
C15_LimiterThreadSafety ==
    /\ [](\A t \in InCritical : tb_lock = t)
    /\ [](0 <= tb_minute_tokens /\ tb_minute_tokens <= burst_size * TokenUnits)
    /\ [](tb_grants <= requests_per_day /\ tb_day_requests = tb_grants)
    /\ [][bucketVars' # bucketVars =>
            \E t \in Threads : tb_lock = t /\ tb_thread'[t] # tb_thread[t]]_vars
    /\ [][\A t \in Threads : Granted(t) =>
            /\ tb_minute_tokens' = tb_minute_tokens - TokenUnits
            /\ tb_day_requests' = tb_day_requests + 1]_vars

\* t1 is about to take the last token of the bucket while t2 waits for the
\* mutex.
C15_Witness ==
    /\ tb_lock = "t1"
    /\ tb_thread["t1"].pc = "grant" /\ tb_thread["t1"].op = "acquire"
    /\ tb_thread["t2"].pc = "lock" /\ tb_thread["t2"].op = "try_acquire"
    /\ tb_minute_tokens = TokenUnits

\* Thread t takes a step of its call.
Steps(t) == tb_thread'[t] # tb_thread[t]

\* Thread t is at its timeout check with the timeout elapsed.
Elapsed(t) == tb_time - tb_thread[t].start_time >= tb_thread[t].timeout

\* C16 (rate limiter outcomes): try_acquire never sleeps, and returns false
\* without granting when the bucket holds less than one token or the daily
\* count has reached the cap; acquire returns true exactly when it takes a
\* token, returns false exactly at a timeout check that finds the timeout
\* elapsed, and raises RateLimitError in the very step in which it sees the
\* daily cap reached; wait_if_needed raises where acquire returns false.
C16_LimiterOutcomes ==
    /\ [](\A t \in Threads : tb_thread[t].op \in {"try_acquire", "get_stats"} =>
            /\ tb_thread[t].pc \notin {"timeout", "sleep"}
            /\ ~tb_thread[t].slept)
    /\ [](\A t \in Threads : tb_thread[t].op = "wait_if_needed" =>
            tb_thread[t].res # "false")
    /\ [][\A t \in Threads :
            (Steps(t) /\ tb_thread[t].pc = "check" /\ tb_thread[t].op # "get_stats") =>
               IF tb_day_requests >= requests_per_day
               THEN /\ tb_thread'[t].pc = "idle"
                    /\ tb_thread'[t].res = IF tb_thread[t].op = "try_acquire"
                                           THEN "false" ELSE "RateLimitError"
                    /\ UNCHANGED <<bucketVars, tb_grants>>
               ELSE IF tb_minute_tokens < TokenUnits
               THEN /\ tb_thread[t].op = "try_acquire" =>
                          (tb_thread'[t].pc = "idle" /\ tb_thread'[t].res = "false")
                    /\ tb_thread[t].op # "try_acquire" => tb_thread'[t].pc = "timeout"
                    /\ UNCHANGED <<bucketVars, tb_grants>>
               ELSE tb_thread'[t].pc = "grant"]_vars
    /\ [][\A t \in Threads :
            /\ (Steps(t) /\ tb_thread[t].pc = "grant") =>
                  (tb_thread'[t].res = "true" /\ tb_grants' = tb_grants + 1)
            /\ (Steps(t) /\ tb_thread'[t].res = "true") => tb_thread[t].pc = "grant"
            /\ (Steps(t) /\ tb_thread[t].pc = "timeout") =>
                  IF Elapsed(t)
                  THEN tb_thread'[t].res = IF tb_thread[t].op = "acquire"
                                           THEN "false" ELSE "RateLimitError"
                  ELSE tb_thread'[t].pc = "sleep"
            /\ (Steps(t) /\ tb_thread[t].op = "acquire"
                         /\ tb_thread'[t].res = "false") =>
                  (tb_thread[t].pc = "timeout" /\ Elapsed(t))]_vars

\* acquire returned false after polling, try_acquire returned false, and
\* the daily cap was not reached.
C16_Witness ==
    /\ tb_thread["t1"].pc = "idle" /\ tb_thread["t1"].op = "acquire"
    /\ tb_thread["t1"].res = "false" /\ tb_thread["t1"].slept
    /\ tb_thread["t2"].pc = "idle" /\ tb_thread["t2"].op = "try_acquire"
    /\ tb_thread["t2"].res = "false"
    /\ tb_day_requests < requests_per_day

(***************************************************************************)
(* Properties of the adapter: rate-limit backoff, timeouts, output, dry run *)
(***************************************************************************)

\* The error texts of the model that contain a rate-limit signature ("429"
\* and "too many requests" in the first, "quota exceeded" in the second,
\* case-insensitively).
SignatureTexts == {"HTTP 429 Too Many Requests", "Quota Exceeded"}

\* The subprocess exits non-zero in this step and another attempt follows.
ExitFailureRetried ==
    /\ a_pc = "invoke"
    /\ a_attempt' = a_attempt + 1
    /\ a_last_error'.kind = "Gemini CLI exited with code 1"

\* C17 (rate-limit backoff differentiation): when the subprocess exits
\* non-zero on an attempt that is not the last allowed one, exactly one sleep
\* precedes the next attempt: min(30 * 2^attempt, 120) seconds when the error
\* text contains a rate-limit signature (30 s after the first attempt), and
\* the standard min(2^attempt, 60) seconds otherwise.
C17_RateLimitBackoff ==
    [][ExitFailureRetried =>
          /\ Len(a_sleeps') = Len(a_sleeps) + 1
          /\ SubSeq(a_sleeps', 1, Len(a_sleeps)) = a_sleeps
          /\ a_sleeps'[Len(a_sleeps')] =
                IF a_last_error'.text \in SignatureTexts
                THEN Min(30 * (2 ^ a_attempt), 120)
                ELSE Min(2 ^ a_attempt, 60)
          /\ (a_attempt = 0 /\ a_last_error'.text \in SignatureTexts) =>
                a_sleeps'[Len(a_sleeps')] = 30]_vars

\* Four attempts failed with HTTP 429 and the adapter slept 30, 60, 120 and
\* 120 seconds.
C17_Witness ==
    /\ a_pc = "invoke"
    /\ a_attempt = 4
    /\ a_last_error.text = "HTTP 429 Too Many Requests"
    /\ a_sleeps = <<30, 60, 120, 120>>

\* The subprocess times out in this step.
TimedOut ==
    /\ a_pc = "invoke"
    /\ a_pc' # "returned"
    /\ a_last_error'.kind = "Timeout after"

\* A timeout counts as a failed attempt: one more invocation, then either the
\* standard sleep and the next attempt, or GeminiCLIError after
\* max_retries + 1 attempts.
TimeoutRetried ==
    /\ a_invocations' = a_invocations + 1
    /\ a_retries' = a_attempt
    /\ IF a_attempt < a_policy.max_retries
       THEN /\ a_attempt' = a_attempt + 1
            /\ a_sleeps' = Append(a_sleeps, Min(2 ^ a_attempt, 60))
            /\ a_pc' \in {"limiter", "invoke"}
       ELSE /\ a_sleeps' = a_sleeps
            /\ a_pc' = "raised"
            /\ a_result'.kind = "GeminiCLIError"
            /\ a_result'.attempts = a_policy.max_retries + 1

\* The timed-out subprocess was asked to terminate before it was killed.
TimeoutTerminated ==
    /\ a_obs'.signals # <<>>
    /\ Head(a_obs'.signals) = "SIGTERM"
    /\ \A i \in DOMAIN a_obs'.signals :
          a_obs'.signals[i] = "SIGKILL" => i > 1

\* C18 (timeout handling): a subprocess timeout consumes one attempt, is
\* followed by the standard sleep and a retry when attempts remain, leads to
\* GeminiCLIError after max_retries + 1 attempts, and the timed-out process
\* is terminated gracefully, then by force, before the next attempt.
C18_TimeoutHandling ==
    [][TimedOut => (TimeoutRetried /\ TimeoutTerminated)]_vars

\* C19 (forensic output): once the subprocess has been invoked, the output
\* file holds the stdout of the last invocation, whatever its outcome, and
\* not the content of an earlier attempt or of an earlier run.
C19_ForensicOutput ==
    a_invocations >= 1 => a_obs.fileOrigin = "last"

\* C20 (dry run in the adapter): a call of execute_prompt with dry_run true
\* returns exit code 0 with the sentinel output and retries = 0, in one step
\* that invokes no subprocess, calls the rate limiter not at all, sleeps not
\* at all and leaves the output file as it was.
C20_AdapterDryRun ==
    /\ [](a_obs.dry_run =>
            /\ a_pc \in {"returned", "idle"}
            /\ a_result = [kind |-> "return", exit_code |-> 0,
                           output |-> "[DRY RUN] Would execute Gemini CLI",
                           retries |-> 0]
            /\ a_invocations = 0
            /\ a_limiterCalls = 0
            /\ a_sleeps = <<>>
            /\ a_obs.fileOrigin = "before")
    /\ [][a_obs'.dry_run => a_file' = a_file]_vars

\* A dry run with rate limiting enabled and seven retries allowed returned
\* and left the report of an earlier call in place.
C20_Witness ==
    /\ a_obs.dry_run
    /\ a_pc = "returned"
    /\ a_rl
    /\ a_policy.max_retries = 7
    /\ a_file = "report"

(***************************************************************************)
(* Properties of FileLock.acquire and FileLock.release                     *)
(***************************************************************************)

\* The lock file holds metadata that _read_lock_metadata can read.
Readable == lk_file.inode # None /\ lk_file.meta # EmptyMeta

\* time.time() - timestamp of the lock file at lock_path.
LockAge == lk_now - lk_file.meta.timestamp

\* p is in an acquire call that no other process has interfered with, and the
\* call did not find an unreadable lock file without force.
Undisturbed(p) ==
    /\ lk_acq[p].active
    /\ lk_acq[p].solo
    /\ (lk_acq[p].force \/ lk_acq[p].seen # "unreadable")

C22_StaleTakeover ==
    [][\A p \in Procs :
        /\ lk_pc[p] = "idle" /\ AcquireCheck(p, FALSE) /\ Readable /\ lk_file.meta.pid # p
              /\ LockAge > lk_file.meta.ttl
              => lk_pc'[p] = "unlink" /\ lk_res' = lk_res
        /\ lk_pc[p] = "write" /\ Undisturbed(p) /\ AcquireFinish(p) /\ lk_acq[p].seen = "readable"
              /\ ~lk_acq[p].force /\ lk_acq[p].age > lk_acq[p].ttl
              => lk_res' = Outcome(p, "ok") /\ lk_file'.inode = p
    ]_vars

\* p is in a non-forced acquire call that found the lock file of a process
\* that was gone, and no other process has interfered with the call.
Recovering(p) ==
    /\ lk_acq[p].active
    /\ lk_acq[p].solo
    /\ ~lk_acq[p].force
    /\ lk_acq[p].orphan

\* C23: a holder killed without releasing leaves its lock file in place; a
\* non-forced acquire that finds the abandoned lock fails while the lock's age
\* is below the TTL and succeeds once the TTL has elapsed, and a forced
\* acquire succeeds at any age.
C23_CrashRecovery ==
    [][\A p \in Procs :
        /\ lk_file.inode = p /\ lk_pc[p] \in {"write", "held"} /\ Crash(p)
              => lk_file' = lk_file
        /\ lk_pc[p] = "idle" /\ AcquireCheck(p, FALSE) /\ Readable /\ lk_pc[lk_file.inode] = "idle"
              /\ LockAge < TtlOf(p)
              => lk_res'.kind = "LockError: already held" /\ lk_file' = lk_file
        /\ lk_pc[p] = "write" /\ Recovering(p) /\ AcquireFinish(p)
              => lk_acq[p].age >= TtlOf(p)
        /\ Recovering(p) /\ lk_acq[p].age >= TtlOf(p)
              /\ (AcquireUnlink(p) \/ AcquireCreate(p) \/ AcquireFinish(p))
              => /\ lk_pc'[p] \in {"create", "write", "held"}
                 /\ lk_pc'[p] = "held" => lk_file'.inode = p
        /\ lk_acq[p].active /\ lk_acq[p].solo /\ lk_acq[p].force
              /\ lk_acq[p].orphan
              /\ (AcquireUnlink(p) \/ AcquireCreate(p) \/ AcquireFinish(p))
              => /\ lk_pc'[p] \in {"create", "write", "held"}
                 /\ lk_pc'[p] = "held" => lk_file'.inode = p
    ]_vars

\* C24: release() never raises (it can be called, and returns, whenever the
\* process is not inside acquire); after it the lock file is gone, the
\* caller's descriptor is closed and it holds no advisory lock; and a release
\* called again right after a release changes nothing.
C24_ReleaseIdempotent ==
    /\ [](\A p \in Procs : lk_pc[p] \in {"idle", "held"} => ENABLED Release(p))
    /\ [][\A p \in Procs :
            /\ lk_pc[p] \in {"idle", "held"} /\ Release(p)
                  => /\ lk_file' = NoFile
                     /\ lk_fd'[p] = None
                     /\ \A i \in Procs : lk_flock'[i] # p
                     /\ lk_pc'[p] = "idle"
            /\ lk_pc[p] = "idle" /\ lk_fd[p] = None /\ lk_file = NoFile
                  /\ (\A i \in Procs : lk_flock[i] # p) /\ Release(p)
                  => UNCHANGED <<lk_file, lk_flock, lk_pc, lk_fd, lk_t0, lk_res,
                                 lk_now, lk_forced>>
       ]_vars

\* The last acquire to return succeeded, its holder has released, and nobody
\* else has touched the lock: the file is gone and no descriptor is open.
C24_Witness ==
    /\ lk_res.kind = "ok"
    /\ \A q \in Procs : lk_pc[q] = "idle" /\ lk_fd[q] = None
    /\ lk_file = NoFile
    /\ ~lk_stray
    /\ ~lk_forced

(***************************************************************************)
(* Properties of the execution ledger                                      *)
(***************************************************************************)

\* s is a prefix of t.
IsPrefix(s, t) == Len(s) <= Len(t) /\ SubSeq(t, 1, Len(s)) = s

\* C25: write_ledger_entry only appends one line to the date's file, also
\* when an equal line is already there; read_ledger_entries returns every
\* entry written for the date, in the order of the writes; and what an
\* earlier read returned is a prefix of what a later read returns.
C25_LedgerAppendOnly ==
    [][\A date \in LedgerDates :
        /\ (\E args \in LedgerArgs : WriteLedgerEntry(date, args))
              => /\ Len(ld_file'[date]) = Len(ld_file[date]) + 2
                 /\ IsPrefix(ld_file[date], ld_file'[date])
                 /\ ld_file'[date][Len(ld_file'[date])] = Newline
                 /\ ld_file'[date][Len(ld_file'[date]) - 1] # Newline
                 /\ \A other \in LedgerDates \ {date} :
                       ld_file'[other] = ld_file[other]
        /\ ReadLedgerEntries(date)
              => /\ ld_seen'[date] = ld_written[date]
                 /\ IsPrefix(ld_seen[date], ld_seen'[date])
                 /\ ld_file' = ld_file
    ]_vars

\* Two equal entries were written for a date and a read returned both.
C25_Witness ==
    \E date \in LedgerDates :
        /\ Len(ld_seen[date]) = 2
        /\ ld_seen[date][1] = ld_seen[date][2]
        /\ ld_seen[date][1].dependent_inputs = <<>>
        /\ Len(ld_file[date]) = 4

\* C26: a unit that execute_wave finds already complete is reported as
\* completed, and the step that skips it runs no tool, appends no ledger
\* entry and rewrites neither a completion marker nor an output file; a
\* skipped unit never gets a tool run, a marker write or a ledger entry in
\* that call; and when the second of two successive unforced real calls for
\* the same wave returns, the first having reported no failed unit, it has
\* appended no ledger entry.
C26_SkipFrame ==
    /\ [][\A u \in UnitIds :
            (w_unit[u].pc = "pending" /\ w_unit'[u].skipped)
            => /\ w_file' = w_file
               /\ w_marker' = w_marker
               /\ w_ledger' = w_ledger
               /\ w_unit'[u].inv = 0
               /\ w_completed' = Append(w_completed, u)
               /\ w_failed' = w_failed
       ]_vars
    /\ [](\A u \in UnitIds :
            w_unit[u].skipped
            => /\ w_unit[u].inv = 0
               /\ ~w_unit[u].marker_written
               /\ \A i \in DOMAIN w_ledger : w_ledger[i].prompt_id # u
               /\ Occurrences(w_completed, u) = 1)
    /\ []( ( /\ w_call.status = "returned"
             /\ w_prev.status = "returned"
             /\ w_prev.wave = w_call.wave
             /\ ~w_prev.forced /\ UnforcedCall
             /\ ~w_prev.dry_run /\ ~w_call.dry_run
             /\ w_prev.failed = {}
             /\ \A u \in UnitIds : ~w_unit[u].raised )
           => w_ledger = <<>> )

(***************************************************************************)
(* Properties of a pipeline invocation under the daily cap                 *)
(***************************************************************************)

\* The limiter's daily cap has stopped a unit of this invocation.
DailyCapSeen ==
    \/ w_prev.capped
    \/ \E u \in UnitIds : w_unit[u].out.error_message = DailyCapMessage

\* C27: once the daily cap has stopped a unit of an invocation, no further
\* unit, of the current wave or of a later one, is dispatched to the adapter.
C27_DailyCapAbortsInvocation ==
    [][DailyCapSeen =>
          \A v \in UnitIds : ~(w_unit[v].pc = "pending" /\ w_unit'[v].pc = "invoke")
    ]_vars

(***************************************************************************)
(* Properties of the lineage recorded in the ledger                        *)
(***************************************************************************)

\* The output paths the search wave of the current registry writes for the
\* call's date, one per search unit in registry order.
SearchOutputs ==
    LET search_prompts == WavePrompts(Prompts, "search")
    IN  [j \in DOMAIN search_prompts |-> GetOutputPath(search_prompts[j], w_call.date)]

\* C28: every ledger entry of an executed aggregator unit lists as
\* dependent_inputs exactly the output paths of the registry's search units
\* for the date, and every entry of a search unit lists none.
C28_AggregatorLineage ==
    \A i \in DOMAIN w_ledger :
        LET wave == PolicyOf(Prompts, w_ledger[i].prompt_id).wave
        IN  /\ wave = "aggregator" => w_ledger[i].dependent_inputs = SearchOutputs
            /\ wave = "search" => w_ledger[i].dependent_inputs = <<>>

(***************************************************************************)
(* Properties of the output path resolution                                *)
(***************************************************************************)

\* The destination directory convention of each wave.
DestinationDir(wave, date) ==
    CASE wave = "search" -> <<"data", "outputs", "daily", date>>
      [] wave = "aggregator" -> <<"data", "reports">>
      [] wave = "tagger" -> <<"data", "publishing">>
      [] wave = "render" -> <<"dashboards">>
      [] wave = "export" -> <<"data", "publishing">>
      [] wave = "publish" -> <<"data", "outputs">>

\* C29: the path resolved for (wave, pattern, date) lies in the wave's
\* destination directory, keeps the pattern's extension, and its file name
\* is the pattern with every {date} placeholder replaced by the date: it
\* never contains the literal placeholder.
C29_OutputPathResolution ==
    op_out.resolved =>
        /\ op_out.path.dir = DestinationDir(op_in.prompt.wave, op_in.date)
        /\ op_out.path.ext = op_in.prompt.expected_outputs.ext
        /\ op_out.path.stem = ReplaceDate(op_in.prompt.expected_outputs.stem, op_in.date)
        /\ \A i \in DOMAIN op_out.path.stem : op_out.path.stem[i] # "{date}"

(***************************************************************************)
(* Properties of the registry validation                                   *)
(***************************************************************************)

\* The kinds of violation present in the registry validated.
ViolationsPresent ==
    LET ids == [i \in DOMAIN rv_prompts |-> rv_prompts[i].prompt_id]
        waves == {rv_prompts[i].wave : i \in DOMAIN rv_prompts}
    IN  (IF \E i, j \in DOMAIN ids : i # j /\ ids[i] = ids[j]
         THEN {"duplicate"} ELSE {})
        \cup (IF "search" \notin waves THEN {"missing_search"} ELSE {})
        \cup (IF "aggregator" \notin waves THEN {"missing_aggregator"} ELSE {})
        \cup (IF \E i \in DOMAIN rv_prompts :
                    rv_prompts[i].tools /\ rv_prompts[i].temperature > 10
              THEN {"tools_temperature"} ELSE {})

\* The kinds of violation named by the reasons returned.
KindsReported ==
    {rv_result.errors[i].kind : i \in DOMAIN rv_result.errors}
        \cap {"duplicate", "missing_search", "missing_aggregator", "tools_temperature"}

\* C30: for every loaded registry the reasons validate returns name exactly
\* the kinds of violation present in it (validation does not stop at the
\* first one), and ok is true exactly when none is present.
C30_ValidationCumulative ==
    rv_result.returned =>
        /\ KindsReported = ViolationsPresent
        /\ rv_result.ok <=> ViolationsPresent = {}

(***************************************************************************)
(* C31  Migration rejects duplicates outright: a migration whose source    *)
(* holds a duplicate identifier fails with an error and leaves the         *)
(* destination's units as they were before the call; a migration whose     *)
(* source holds no duplicate succeeds and leaves in the destination        *)
(* exactly the source's units.                                             *)
(***************************************************************************)
HasDuplicates(source) ==
    \E i, j \in DOMAIN source : i # j /\ source[i].prompt_id = source[j].prompt_id

C31_MigrationRejectsDuplicates ==
    mg_call.op = "migrate" =>
        IF HasDuplicates(mg_call.source)
        THEN mg_call.error # None /\ mg_table = mg_call.before
        ELSE mg_call.error = None
             /\ mg_table = {mg_call.source[i] : i \in DOMAIN mg_call.source}

(***************************************************************************)
(* Properties of reruns after failures, dry runs and kills                 *)
(***************************************************************************)

\* C32: a unit that the previous execute_wave call for the wave reported in
\* its failed list is not skipped as already complete by the next unforced,
\* real call for the same date.
C32_FailedUnitsRetried ==
    ( /\ w_prev.status = "returned"
      /\ w_prev.wave = w_call.wave
      /\ UnforcedCall
      /\ ~w_call.dry_run )
    => \A u \in w_prev.failed : ~w_unit[u].skipped

\* is_completed(output_path, prompt_policy = policy) without forcing, for a
\* unit of the current call's registry and date.
CompleteNow(u) ==
    IsCompleted(w_file[UnitPath(u)], w_marker[MarkerPath(UnitPath(u))],
                FALSE, {}, {}, UnitPolicy(u))

\* C33: no step of an execute_wave call with dry_run = true changes what
\* is_completed (without forcing) returns for any unit.
C33_DryRunKeepsCompletion ==
    [][(w_call.status = "running" /\ w_call.dry_run)
       => \A u \in UnitIds : CompleteNow(u)' = CompleteNow(u)
    ]_vars

\* C34: after execute_wave was killed, every unit that the unforced rerun
\* of the wave skips as already complete has a successful ledger entry
\* written by the killed call and an output file written in full by a
\* successful tool run.
C34_CrashConsistency ==
    ( /\ w_prev.status = "killed"
      /\ w_prev.wave = w_call.wave
      /\ UnforcedCall )
    => \A u \in UnitIds :
          w_unit[u].skipped
          => /\ u \in w_prev.ledgered
             /\ w_file[UnitPath(u)] \in ToolOutputs

(***************************************************************************)
(* Properties of the naming of completion markers                          *)
(***************************************************************************)

\* The units of the current call's registry.
RegistryIds == {Prompts[i].prompt_id : i \in DOMAIN Prompts}

\* C35: two units of a registry with different identifiers and different
\* output paths have different marker files, and the marker stored at a
\* unit's marker path was written for that unit.
C35_MarkersNeverCollide ==
    w_call.n > 0 =>
        /\ \A u, v \in RegistryIds :
              (u # v /\ UnitPath(u) # UnitPath(v))
              => MarkerPath(UnitPath(u)) # MarkerPath(UnitPath(v))
        /\ \A u \in RegistryIds :
              w_marker[MarkerPath(UnitPath(u))].kind = "marker"
              => w_marker[MarkerPath(UnitPath(u))].prompt_id = u

(***************************************************************************)
(* Properties of the completion record across dates                        *)
(***************************************************************************)

\* C36: the valid marker left by a successful run of a unit for one date
\* does not make an unforced run of the same unit for another date skip it.
C36_CompletionKeyedByDate ==
    (dk_check.done /\ dk_check.date # dk_run.date) => ~dk_check.skipped

(***************************************************************************)
(* Properties of release by a process that does not hold the lock          *)
(***************************************************************************)

\* C37: release() by a process that is not the holder of the current lock
\* file (it never acquired, its acquire failed, or its lock was taken over)
\* leaves the lock file of the process that holds it in place.
C37_StrayReleaseHarmless ==
    [][\A p \in Procs :
          ( /\ lk_file.inode # None
            /\ lk_file.inode # p
            /\ lk_pc[lk_file.inode] = "held"
            /\ lk_pc[p] \in {"idle", "held"}
            /\ Release(p) )
          => lk_file' = lk_file
    ]_vars

(***************************************************************************)
(* Properties of the recorded retry count                                  *)
(***************************************************************************)

\* The retries the adapter performed for unit u in the current call: the
\* tool runs after the first one.
PerformedRetries(u) == IF w_unit[u].inv > 0 THEN w_unit[u].inv - 1 ELSE 0

\* Sum of the retries field of a list of ledger entries (get_summary_stats).
RECURSIVE TotalRetries(_)
TotalRetries(entries) ==
    IF entries = <<>> THEN 0
    ELSE Head(entries).retries + TotalRetries(Tail(entries))

RECURSIVE TotalPerformed(_)
TotalPerformed(entries) ==
    IF entries = <<>> THEN 0
    ELSE PerformedRetries(Head(entries).prompt_id) + TotalPerformed(Tail(entries))

\* C38: the retry count in a unit's ledger entry and in the completion
\* marker written for it is the number of retries the adapter performed for
\* that execution, and the total_retries of the call's entries is the sum of
\* the retries performed.
C38_RetryCountFaithful ==
    /\ \A i \in DOMAIN w_ledger :
          w_ledger[i].retries = PerformedRetries(w_ledger[i].prompt_id)
    /\ \A u \in UnitIds :
          ( /\ w_unit[u].marker_written
            /\ w_marker[MarkerPath(UnitPath(u))].kind = "marker"
            /\ w_marker[MarkerPath(UnitPath(u))].prompt_id = u )
          => w_marker[MarkerPath(UnitPath(u))].retries = PerformedRetries(u)
    /\ TotalRetries(w_ledger) = TotalPerformed(w_ledger)

(***************************************************************************)
(* Properties of the lineage of the later waves                            *)
(***************************************************************************)

\* The waves that produce the declared inputs of a unit of `wave`, in the
\* order of the inputs.
ProducingWaves(wave) ==
    CASE wave \in {"tagger", "render"} -> <<"aggregator">>
      [] wave = "export" -> <<"aggregator", "tagger">>
      [] wave = "publish" -> <<"export">>
      [] OTHER -> <<>>

\* C39: for a tagger, render, export or publish unit, every declared input
\* whose producing wave has a unit in the registry is the resolved output
\* path, for the date, of a unit of that producing wave.
C39_DownstreamLineage ==
    dg_out.returned =>
        \A i \in DOMAIN dg_in.prompts :
            LET unit == dg_in.prompts[i]
                inputs == dg_out.deps[unit.prompt_id]
                producing == ProducingWaves(unit.wave)
            IN  /\ Len(inputs) = Len(producing)
                /\ \A k \in DOMAIN inputs :
                      (\E j \in DOMAIN dg_in.prompts :
                           dg_in.prompts[j].wave = producing[k])
                      => \E j \in DOMAIN dg_in.prompts :
                            /\ dg_in.prompts[j].wave = producing[k]
                            /\ GetOutputPath(dg_in.prompts[j], dg_in.date) = inputs[k]

(***************************************************************************)
(* Termination                                                             *)
(***************************************************************************)

=============================================================================
